---- MODULE Spec2Model ----
(***************************************************************************)
(* A model of the HLTV scraper (src/hltv_scraper.py): the live-state       *)
(* inference and format detection of HLTVScraper._fetch_live_match_detail, *)
(* the retrying fetcher HLTVScraper._fetch and the TTL cache               *)
(* HLTVScraper._get_cache / _set_cache.                                    *)
(*                                                                         *)
(* Texts scraped from the page are sequences of one-character strings, so  *)
(* that int(), lower() and the substring test are computed, not assumed.   *)
(***************************************************************************)
EXTENDS Integers, Sequences, FiniteSets, TLC

VARIABLES
    \* ---- _fetch_live_match_detail ----
    pc,                     \* position in _fetch_live_match_detail
    mapholders,             \* soup.select(".mapholder"), in document order
    format_elem,            \* soup.select_one(".preformatted-text")
    live_format,            \* live_match.format, from the listing page
    mh_index,               \* number of mapholders the loop has processed
    team1_maps_won,
    team2_maps_won,
    current_map,
    current_map_t1_score,
    current_map_t2_score,
    match_format,
    result,                 \* the value returned
    \* ---- _fetch ----
    HAS_DEPENDENCIES,       \* curl_cffi and bs4 were importable
    retries,                \* the retries argument
    attempt,                \* the loop variable
    fetch_pc,               \* position in _fetch
    fetch_trace,            \* the sleeps and requests made, in order
    fetch_result,           \* the value returned
    \* ---- _get_cache / _set_cache ----
    cache,                  \* self._cache: key -> (data, timestamp)
    now,                    \* datetime.now(), in seconds
    got,                    \* the _get_cache call just made and its result
    set_log,                \* history: the last _set_cache of each key
    \* ---- LiveDataManager ----
    m_provider,             \* self._provider: 0 for None, else an instance
    m_provider_type,        \* self._provider_type
    m_enabled,              \* self._enabled
    m_fallback_to_hltv,     \* self._fallback_to_hltv
    instances,              \* the providers created so far and their state
    m_pc,                   \* position in LiveDataManager.get_live_matches
    m_seen,                 \* what the call read from self
    m_called,               \* the sources the call awaited, in order
    m_live_data,            \* what the provider answered
    m_scraper_data,         \* what scraper.get_live_matches() answered
    m_result,               \* the value returned
    close_pc,               \* position in LiveDataManager.close
    \* ---- query operations ----
    tasks,                  \* the running query operations, one per task
    \* ---- _parse_match_detail ----
    soup,                   \* the match page handed to the parser
    detail,                 \* the MatchDetail it returns
    \* ---- _parse_stats_table ----
    table,                  \* table.select("tbody tr"): rows of cell texts
    row_index,              \* number of rows the loop has gone through
    players,                \* the list built so far
    stats_pc,               \* position in _parse_stats_table
    \* ---- PlaywrightProvider ----
    pw_initialized,         \* self._initialized
    pw_browser,             \* self._browser: 0 for None, else a launch
    pw_context,             \* self._context: 0 for None, else a context
    launches,               \* history: browsers launched so far
    contexts,               \* history: contexts created so far
    open_pages,             \* pages open in the provider's contexts
    pw_ops,                 \* the running page-level operations
    pw_closed,              \* close() has been called
    \* ---- MatchEventDetector ----
    previous_matches,       \* self.previous_matches
    event_history,          \* self.event_history
    emitted,                \* history: every event emitted, in order
    returned,               \* the events the last call returned
    snapshots,              \* history: the snapshots passed, in call order
    detect_calls            \* number of detect_events calls made

inferVars == << pc, mapholders, format_elem, live_format, mh_index,
                team1_maps_won, team2_maps_won, current_map,
                current_map_t1_score, current_map_t2_score, match_format,
                result >>

fetchVars == << HAS_DEPENDENCIES, retries, attempt, fetch_pc, fetch_trace,
                fetch_result >>

cacheVars == << cache, now, got, set_log >>

managerVars == << m_provider, m_provider_type, m_enabled, m_fallback_to_hltv,
                  instances, m_pc, m_seen, m_called, m_live_data,
                  m_scraper_data, m_result, close_pc >>

queryVars == << tasks >>

detailVars == << soup, detail >>

statsVars == << table, row_index, players, stats_pc >>

browserVars == << pw_initialized, pw_browser, pw_context, launches, contexts,
                  open_pages, pw_ops, pw_closed >>

detectorVars == << previous_matches, event_history, emitted, returned,
                   snapshots, detect_calls >>

vars == << inferVars, fetchVars, cacheVars, managerVars, queryVars, detailVars,
           statsVars, browserVars, detectorVars >>

----------------------------------------------------------------------------
(* Bounds of the model *)

MaxMaps == 2            \* mapholders on a detail page (inference runs)
MaxFormatMaps == 1      \* mapholders on a detail page (format runs)
MaxRetries == 3         \* largest retries argument of a _fetch call
ClockSlack == 1         \* seconds observed on each side of a TTL boundary
MaxProviders == 2       \* providers a LiveDataManager creates in a run
MaxCalls == 2           \* operations a query task runs one after the other
MaxTasks == 2           \* query operations running concurrently
MaxRows == 2            \* rows of a statistics table
MaxPageOps == 2         \* page-level operations of a PlaywrightProvider
MaxDetectCalls == 4     \* calls of MatchEventDetector.detect_events

----------------------------------------------------------------------------
(* Texts *)

DigitVal == [c \in {"0","1","2","3","4","5","6","7","8","9"} |->
               CASE c = "0" -> 0 [] c = "1" -> 1 [] c = "2" -> 2 [] c = "3" -> 3
                 [] c = "4" -> 4 [] c = "5" -> 5 [] c = "6" -> 6 [] c = "7" -> 7
                 [] c = "8" -> 8 [] c = "9" -> 9]

\* int(text) succeeds: an optional sign followed by at least one digit.
IsIntText(t) ==
    LET body == IF Len(t) > 0 /\ t[1] \in {"-", "+"} THEN Tail(t) ELSE t
    IN  /\ Len(body) > 0
        /\ \A i \in 1..Len(body) : body[i] \in DOMAIN DigitVal

RECURSIVE DigitsValue(_)
DigitsValue(d) ==
    IF Len(d) = 0 THEN 0
    ELSE 10 * DigitsValue(SubSeq(d, 1, Len(d) - 1)) + DigitVal[d[Len(d)]]

\* int(text), for a text on which it does not raise ValueError.
IntOf(t) ==
    IF t[1] = "-" THEN 0 - DigitsValue(Tail(t))
    ELSE IF t[1] = "+" THEN DigitsValue(Tail(t))
    ELSE DigitsValue(t)

Dash == << "-" >>

LowerChar(c) ==
    CASE c = "B" -> "b" [] c = "E" -> "e" [] c = "S" -> "s" [] c = "T" -> "t"
      [] c = "O" -> "o" [] c = "F" -> "f" [] c = "L" -> "l" [] c = "A" -> "a"
      [] c = "N" -> "n" [] c = "G" -> "g" [] c = "R" -> "r" [] c = "D" -> "d"
      [] c = "I" -> "i"
      [] OTHER -> c

\* str.lower()
Lower(t) == [i \in 1..Len(t) |-> LowerChar(t[i])]

\* pat in t
Contains(t, pat) ==
    \E i \in 0..(Len(t) - Len(pat)) : SubSeq(t, i + 1, i + Len(pat)) = pat

BestOf5 == << "b","e","s","t"," ","o","f"," ","5" >>
BestOf3 == << "b","e","s","t"," ","o","f"," ","3" >>
BestOf1 == << "b","e","s","t"," ","o","f"," ","1" >>

----------------------------------------------------------------------------
(* Inputs *)

MapNames == {"Mirage", "Inferno"}

\* Texts a .results-team-score element can carry: the not-started dash, a
\* text int() rejects, and round scores.
ScoreTexts == { Dash, << "x" >>, << "1","2" >>, << "1","3" >>, << "1","5" >> }

\* A mapholder: its .mapname text and its .results-team-score texts (fewer
\* than two when the page has not rendered them).
MapHolders ==
    [map_name : MapNames, scores : {<< >>}]
      \cup { [map_name |-> n, scores |-> << a, b >>] :
               n \in MapNames, a \in ScoreTexts, b \in ScoreTexts }

SeqsUpTo(S, n) == UNION { [1..k -> S] : k \in 0..n }

\* The .preformatted-text element: absent, or present with its text.
NoElem == [present |-> FALSE, text |-> << >>]
Elem(t) == [present |-> TRUE, text |-> t]

\* Descriptor texts of the .preformatted-text element.
TextBo3Lan == \* Best of 3 (LAN)
    << "B", "e", "s", "t", " ", "o", "f", " ", "3", " ", "(", "L", "A", "N", ")" >>
TextBo5Upper == \* BEST OF 5
    << "B", "E", "S", "T", " ", "O", "F", " ", "5" >>
TextBo1 == \* best of 1
    << "b", "e", "s", "t", " ", "o", "f", " ", "1" >>
TextBo3ThenBo5 == \* Best of 3, final BEST of 5
    << "B", "e", "s", "t", " ", "o", "f", " ", "3", ",", " ", "f", "i", "n", "a", "l", " ", "B", "E", "S", "T", " ", "o", "f", " ", "5" >>
TextBo1ThenBo3 == \* best of 1, then Best Of 3
    << "b", "e", "s", "t", " ", "o", "f", " ", "1", ",", " ", "t", "h", "e", "n", " ", "B", "e", "s", "t", " ", "O", "f", " ", "3" >>
TextBo7 == \* Best of 7
    << "B", "e", "s", "t", " ", "o", "f", " ", "7" >>
TextShort == \* Bo3
    << "B", "o", "3" >>

FormatTexts == { TextBo3Lan, TextBo5Upper, TextBo1, TextBo3ThenBo5,
                 TextBo1ThenBo3, TextBo7, TextShort, << >> }

FormatElems == {NoElem} \cup { Elem(t) : t \in FormatTexts }

\* live_match.format as _parse_live_match sets it.
ListingFormats == {"", "bo1", "bo3", "bo5"}

----------------------------------------------------------------------------
(* HLTVScraper.__init__, _get_cache, _set_cache *)

None == [kind |-> "None"]
Pending == [kind |-> "pending"]

\* self._cache_ttl
cache_ttl ==
    [ct \in {"matches", "rankings", "results", "match_detail", "player", "team"} |->
       CASE ct = "matches" -> 120
         [] ct = "rankings" -> 3600
         [] ct = "results" -> 600
         [] ct = "match_detail" -> 60
         [] ct = "player" -> 3600
         [] ct = "team" -> 1800]

DefaultTtl == 300

\* The cache_type arguments: the six of the table and one that is not in it.
CacheTypes == DOMAIN cache_ttl \cup {"other"}

\* self._cache_ttl.get(cache_type, 300)
Ttl(cache_type) ==
    IF cache_type \in DOMAIN cache_ttl THEN cache_ttl[cache_type] ELSE DefaultTtl

CacheKeys == {"matches_list", "results_list"}

\* Cached values: the lists the queries store, the empty list included.
CacheValues == { << >>, << "m1" >> }

\* Instants at which the clock is read: around every TTL after time 0.
Instants ==
    { t + d : t \in {0, DefaultTtl} \cup { cache_ttl[ct] : ct \in DOMAIN cache_ttl },
              d \in (0 - ClockSlack)..ClockSlack } \cap Nat

Entry(data, timestamp) == [data |-> data, timestamp |-> timestamp]
Value(data) == [kind |-> "value", value |-> data]

\* Mutant: an entry is still fresh at exactly ttl seconds.
Fresh_Inclusive(t, timestamp, ttl) == t - timestamp <= ttl

\* datetime.now() - timestamp < timedelta(seconds=ttl)
Fresh(t, timestamp, ttl) == t - timestamp < ttl

\* _get_cache(key, cache_type) on the store c at time t.
GetCache(c, t, key, cache_type) ==
    IF key \in DOMAIN c
    THEN IF Fresh(t, c[key].timestamp, Ttl(cache_type))
         THEN Value(c[key].data)
         ELSE None
    ELSE None

\* Mutant: a list set under a key that holds a list is added to it.
SetCache_Append(c, t, key, value) ==
    [k \in DOMAIN c \cup {key} |->
        IF k # key THEN c[k]
        ELSE IF key \in DOMAIN c
        THEN Entry([value EXCEPT !.items = c[key].data.items \o @], t)
        ELSE Entry(value, t)]

\* Mutant: the store holds one entry only.
SetCache_SingleEntry(c, t, key, value) ==
    [k \in {key} |-> Entry(value, t)]

\* _set_cache(key, value) on the store c at time t.
SetCache(c, t, key, value) ==
    [k \in DOMAIN c \cup {key} |-> IF k = key THEN Entry(value, t) ELSE c[k]]

NoRead == [kind |-> "none"]
Read(key, cache_type, ret) ==
    [kind |-> "read", key |-> key, cache_type |-> cache_type, ret |-> ret]

NotSet == [set |-> FALSE]
WasSet(data, timestamp) == [set |-> TRUE, data |-> data, timestamp |-> timestamp]

\* self._cache = {} at construction.
CacheNew ==
    /\ cache = << >>
    /\ now = 0
    /\ got = NoRead
    /\ set_log = [k \in CacheKeys |-> NotSet]

CacheSet ==
    /\ \E key \in CacheKeys, value \in CacheValues :
         /\ cache' = SetCache(cache, now, key, value)
         /\ set_log' = [set_log EXCEPT ![key] = WasSet(value, now)]
    /\ got' = NoRead
    /\ UNCHANGED now

CacheGet ==
    /\ \E key \in CacheKeys, cache_type \in CacheTypes :
         got' = Read(key, cache_type, GetCache(cache, now, key, cache_type))
    /\ UNCHANGED << cache, now, set_log >>

\* Time passes.
ClockAdvance ==
    /\ \E t \in Instants : t > now /\ now' = t
    /\ got' = NoRead
    /\ UNCHANGED << cache, set_log >>

NextCache ==
    \/ CacheSet /\ UNCHANGED << inferVars, fetchVars, managerVars, queryVars, detailVars,
                    statsVars, browserVars, detectorVars >>
    \/ CacheGet /\ UNCHANGED << inferVars, fetchVars, managerVars, queryVars, detailVars,
                    statsVars, browserVars, detectorVars >>
    \/ ClockAdvance /\ UNCHANGED << inferVars, fetchVars, managerVars, queryVars, detailVars,
                    statsVars, browserVars, detectorVars >>

----------------------------------------------------------------------------
(* LiveDataManager *)

NoType == "None"
ProviderTypes == {"bo3gg", "playwright", "unknown"}
KnownTypes == {"bo3gg", "playwright"}

\* LiveMatchData objects a provider answers with.
ProviderMatch1 ==
    [match_id |-> "p1", team1 |-> "NAVI", team2 |-> "FaZe",
     team1_map_score |-> 1, team2_map_score |-> 0, current_map |-> "Mirage",
     team1_round_score |-> 7, team2_round_score |-> 5, event |-> "Major",
     format |-> "bo3", url |-> "bo3.gg/p1",
     team1_side |-> "CT", team2_side |-> "T", round_phase |-> "LIVE"]
ProviderMatch2 ==
    [match_id |-> "p2", team1 |-> "G2", team2 |-> "Vitality",
     team1_map_score |-> 0, team2_map_score |-> 2, current_map |-> "",
     team1_round_score |-> 0, team2_round_score |-> 0, event |-> "Cup",
     format |-> "bo5", url |-> "bo3.gg/p2",
     team1_side |-> "", team2_side |-> "", round_phase |-> "FINISHED"]

\* A LiveMatch of the primary scraper.
ScraperMatch1 ==
    [match_id |-> "h1", team1 |-> "NAVI", team2 |-> "FaZe",
     team1_map_score |-> 1, team2_map_score |-> 0, current_map |-> "Mirage",
     team1_round_score |-> 6, team2_round_score |-> 5, event |-> "Major",
     format |-> "bo3", url |-> "hltv.org/matches/h1"]

Raised == [kind |-> "raised"]
List(items) == [kind |-> "list", items |-> items]

\* What awaiting self._provider.get_live_matches() can give.
ProviderOutcomes ==
    { Raised, List(<< >>), List(<< ProviderMatch1 >>),
      List(<< ProviderMatch2, ProviderMatch1 >>) }

\* What awaiting scraper.get_live_matches() can give.
ScraperOutcomes == { List(<< >>), List(<< ScraperMatch1 >>) }

\* Mutant: the two map scores are exchanged.
ToLiveMatch_ScoresSwapped(m) ==
    [match_id |-> m.match_id, team1 |-> m.team1, team2 |-> m.team2,
     team1_map_score |-> m.team2_map_score,
     team2_map_score |-> m.team1_map_score,
     current_map |-> m.current_map,
     team1_round_score |-> m.team1_round_score,
     team2_round_score |-> m.team2_round_score,
     event |-> m.event, format |-> m.format, url |-> m.url]

\* LiveMatch(match_id=m.match_id, ...)
ToLiveMatch(m) ==
    [match_id |-> m.match_id, team1 |-> m.team1, team2 |-> m.team2,
     team1_map_score |-> m.team1_map_score,
     team2_map_score |-> m.team2_map_score,
     current_map |-> m.current_map,
     team1_round_score |-> m.team1_round_score,
     team2_round_score |-> m.team2_round_score,
     event |-> m.event, format |-> m.format, url |-> m.url]

\* Mutant: the primary scraper is always the fallback.
FallsBack_Always(flag) == TRUE

\* if self._fallback_to_hltv
FallsBack(flag) == flag

NothingSeen == [enabled |-> FALSE, provider |-> 0, fallback |-> FALSE]

\* LiveDataManager.__init__
ManagerNew ==
    /\ m_provider = 0
    /\ m_provider_type = NoType
    /\ m_enabled = FALSE
    /\ m_fallback_to_hltv = TRUE
    /\ instances = << >>
    /\ m_pc = "idle"
    /\ m_seen = NothingSeen
    /\ m_called = << >>
    /\ m_live_data = Pending
    /\ m_scraper_data = Pending
    /\ m_result = Pending
    /\ close_pc = "idle"

\* asyncio.create_task(self._provider.close()): the close is scheduled.
ScheduleClose(ins, p) ==
    IF p # 0 /\ ins[p].state = "open"
    THEN [ins EXCEPT ![p].state = "closing"]
    ELSE ins

\* configure(enabled, provider, fallback_to_hltv); created tells whether
\* the import and the constructor went through without an exception.
Configure ==
    /\ \E enabled \in BOOLEAN, provider \in ProviderTypes,
          fallback \in BOOLEAN, created \in BOOLEAN :
         /\ m_enabled' = enabled
         /\ m_fallback_to_hltv' = fallback
         /\ IF enabled /\ provider # m_provider_type
            THEN /\ Len(instances) < MaxProviders
                 /\ IF created
                    THEN /\ m_provider_type' = provider
                         /\ IF provider \in KnownTypes
                            THEN /\ instances' =
                                      Append(ScheduleClose(instances, m_provider),
                                             [type |-> provider, state |-> "open"])
                                 /\ m_provider' = Len(instances) + 1
                            ELSE /\ instances' = ScheduleClose(instances, m_provider)
                                 /\ m_provider' = 0
                    ELSE /\ instances' = ScheduleClose(instances, m_provider)
                         /\ m_provider' = 0
                         /\ m_provider_type' = NoType
            ELSE UNCHANGED << m_provider, m_provider_type, instances >>
    /\ UNCHANGED << m_pc, m_seen, m_called, m_live_data, m_scraper_data,
                    m_result, close_pc >>

\* The event loop runs a scheduled close() task to its end.
RunCloseTask ==
    /\ \E p \in 1..Len(instances) :
         /\ instances[p].state = "closing"
         /\ instances' = [instances EXCEPT ![p].state = "closed"]
    /\ UNCHANGED << m_provider, m_provider_type, m_enabled, m_fallback_to_hltv,
                    m_pc, m_seen, m_called, m_live_data, m_scraper_data,
                    m_result, close_pc >>

\* close(): if self._provider: await self._provider.close()
ManagerCloseCall ==
    /\ close_pc = "idle"
    /\ IF m_provider # 0
       THEN /\ close_pc' = "awaiting"
            /\ instances' = [instances EXCEPT ![m_provider].state = "closed"]
       ELSE UNCHANGED << close_pc, instances >>
    /\ UNCHANGED << m_provider, m_provider_type, m_enabled, m_fallback_to_hltv,
                    m_pc, m_seen, m_called, m_live_data, m_scraper_data,
                    m_result >>

\* close(), after the await: self._provider = None
ManagerCloseResume ==
    /\ close_pc = "awaiting"
    /\ m_provider' = 0
    /\ close_pc' = "idle"
    /\ UNCHANGED << m_provider_type, m_enabled, m_fallback_to_hltv, instances,
                    m_pc, m_seen, m_called, m_live_data, m_scraper_data,
                    m_result >>

\* The part of get_live_matches from "if self._fallback_to_hltv" on.
FallBackOrEmpty(seen, called) ==
    /\ m_seen' = [seen EXCEPT !.fallback = m_fallback_to_hltv]
    /\ IF FallsBack(m_fallback_to_hltv)
       THEN /\ m_pc' = "scraper"
            /\ m_called' = Append(called, "scraper")
            /\ m_result' = m_result
       ELSE /\ m_pc' = "done"
            /\ m_called' = called
            /\ m_result' = List(<< >>)

\* get_live_matches() up to its first await.
ManagerGetLiveCall ==
    /\ m_pc = "idle"
    /\ LET seen == [enabled |-> m_enabled, provider |-> m_provider,
                    fallback |-> FALSE]
       IN  IF m_enabled /\ m_provider # 0
           THEN /\ m_pc' = "provider"
                /\ m_seen' = seen
                /\ m_called' = << "provider" >>
                /\ m_result' = m_result
           ELSE FallBackOrEmpty(seen, << >>)
    /\ UNCHANGED << m_provider, m_provider_type, m_enabled, m_fallback_to_hltv,
                    instances, m_live_data, m_scraper_data, close_pc >>

\* The provider answers or raises.
ManagerProviderReturns ==
    /\ m_pc = "provider"
    /\ \E live_data \in ProviderOutcomes :
         /\ m_live_data' = live_data
         /\ IF live_data.kind = "list" /\ live_data.items # << >>
            THEN /\ m_result' = List([i \in 1..Len(live_data.items) |->
                                        ToLiveMatch(live_data.items[i])])
                 /\ m_pc' = "done"
                 /\ UNCHANGED << m_seen, m_called >>
            ELSE FallBackOrEmpty(m_seen, m_called)
    /\ UNCHANGED << m_provider, m_provider_type, m_enabled, m_fallback_to_hltv,
                    instances, m_scraper_data, close_pc >>

\* return await scraper.get_live_matches()
ManagerScraperReturns ==
    /\ m_pc = "scraper"
    /\ \E data \in ScraperOutcomes :
         /\ m_scraper_data' = data
         /\ m_result' = data
    /\ m_pc' = "done"
    /\ UNCHANGED << m_provider, m_provider_type, m_enabled, m_fallback_to_hltv,
                    instances, m_seen, m_called, m_live_data, close_pc >>

\* The caller takes the result; the manager is ready for the next call.
ManagerGetLiveDone ==
    /\ m_pc = "done"
    /\ m_pc' = "idle"
    /\ m_seen' = NothingSeen
    /\ m_called' = << >>
    /\ m_live_data' = Pending
    /\ m_scraper_data' = Pending
    /\ m_result' = Pending
    /\ UNCHANGED << m_provider, m_provider_type, m_enabled, m_fallback_to_hltv,
                    instances, close_pc >>

NextManager ==
    \/ Configure /\ UNCHANGED << inferVars, fetchVars, cacheVars, queryVars, detailVars,
                    statsVars, browserVars, detectorVars >>
    \/ RunCloseTask /\ UNCHANGED << inferVars, fetchVars, cacheVars, queryVars, detailVars,
                    statsVars, browserVars, detectorVars >>
    \/ ManagerCloseCall /\ UNCHANGED << inferVars, fetchVars, cacheVars, queryVars, detailVars,
                    statsVars, browserVars, detectorVars >>
    \/ ManagerCloseResume /\ UNCHANGED << inferVars, fetchVars, cacheVars, queryVars, detailVars,
                    statsVars, browserVars, detectorVars >>
    \/ ManagerGetLiveCall /\ UNCHANGED << inferVars, fetchVars, cacheVars, queryVars, detailVars,
                    statsVars, browserVars, detectorVars >>
    \/ ManagerProviderReturns /\ UNCHANGED << inferVars, fetchVars, cacheVars, queryVars, detailVars,
                    statsVars, browserVars, detectorVars >>
    \/ ManagerScraperReturns /\ UNCHANGED << inferVars, fetchVars, cacheVars, queryVars, detailVars,
                    statsVars, browserVars, detectorVars >>
    \/ ManagerGetLiveDone /\ UNCHANGED << inferVars, fetchVars, cacheVars, queryVars, detailVars,
                    statsVars, browserVars, detectorVars >>

----------------------------------------------------------------------------
(* HLTVScraper query operations *)

RankLimit == 100        \* search_team: get_rankings(max_teams=100)
ResultsLimit == 50      \* get_match_detail: get_results(max_results=50)
DefaultMax == 30        \* max_results: int = 30, max_teams: int = 30

Min(a, b) == IF a < b THEN a ELSE b

\* The arguments of a call; the fields an operation does not take stay at
\* their defaults.
Call(op) ==
    [op |-> op, id |-> "", url |-> "", max |-> 0, fetch_details |-> FALSE,
     name |-> << >>]

GetMatchesCall == Call("get_matches")
GetLiveMatchesCall(fetch_details) ==
    [Call("get_live_matches") EXCEPT !.fetch_details = fetch_details]
GetResultsCall(max_results) == [Call("get_results") EXCEPT !.max = max_results]
GetRankingsCall(max_teams) == [Call("get_rankings") EXCEPT !.max = max_teams]
GetMatchDetailCall(match_id, match_url) ==
    [Call("get_match_detail") EXCEPT !.id = match_id, !.url = match_url]
GetMapStatsCall(stats_url) == [Call("get_map_stats") EXCEPT !.url = stats_url]
GetPlayerInfoCall(player_id) == [Call("get_player_info") EXCEPT !.id = player_id]
SearchTeamCall(name) == [Call("search_team") EXCEPT !.name = name]

ListingOps == {"get_matches", "get_results", "get_rankings"}
SequenceOps == ListingOps \cup {"get_live_matches"}
RecordOps == {"get_map_stats", "get_player_info"}

\* The cache key of a call.
Key(call) ==
    CASE call.op = "get_matches" -> "matches_list"
      [] call.op = "get_live_matches" -> "live_matches"
      [] call.op = "get_results" -> "results_list"
      [] call.op = "get_rankings" -> "rankings_list"
      [] call.op = "get_match_detail" -> "match_" \o call.id
      [] call.op = "get_map_stats" -> "mapstats_" \o call.url
      [] call.op = "get_player_info" -> "player_" \o call.id
      [] OTHER -> ""

\* The cache_type a call reads its key with.
CacheType(call) ==
    CASE call.op = "get_matches" -> "matches"
      [] call.op = "get_results" -> "results"
      [] call.op = "get_rankings" -> "rankings"
      [] call.op = "get_player_info" -> "player"
      [] OTHER -> "match_detail"

\* The address a call fetches when it needs no resolution.
Url(call) ==
    CASE call.op \in {"get_matches", "get_live_matches"} -> "/matches"
      [] call.op = "get_results" -> "/results"
      [] call.op = "get_rankings" -> "/ranking/teams"
      [] call.op = "get_player_info" -> "/stats/players/" \o call.id
      [] OTHER -> call.url

\* ---- what the pages hold ----

\* Ids of the listings: parts[2] of the href, the empty string for an href
\* such as "/matches/" whose third part is empty.
MatchIds == {"m1", ""}
MatchUrl(id) == "/matches/" \o id
StatsUrl == "/stats/matches/mapstatsid/1"
PlayerIds == {"7"}

\* An entry of get_matches() or of get_results().
MatchEntry(id) == [match_id |-> id, url |-> MatchUrl(id)]

\* A LiveMatch parsed from a container of the listing.
ListedLive(id) == [match_id |-> id, url |-> MatchUrl(id), detailed |-> FALSE]

\* A .live-match-container: parsed, without a match link, or raising.
Container(id) == [kind |-> "parsed", match |-> ListedLive(id)]
ContainerNoLink == [kind |-> "nolink", match |-> ListedLive("")]
ContainerRaises == [kind |-> "raises", match |-> ListedLive("")]

Astralis == << "A", "s", "t", "r", "a", "l", "i", "s" >>
Fnatic == << "F", "n", "a", "t", "i", "c" >>
Blast == << "B", "L", "A", "S", "T" >>
G2 == << "G", "2" >>

TeamInfo(name, rank) == [name |-> name, rank |-> rank]

\* Ranking pages: three teams, and RankLimit teams followed by one more.
TeamsShort == << TeamInfo(Fnatic, 1), TeamInfo(Astralis, 2), TeamInfo(Blast, 3) >>
TeamsLong ==
    [i \in 1..(RankLimit + 1) |->
        IF i <= RankLimit THEN TeamInfo(G2, i) ELSE TeamInfo(Astralis, i)]

\* Names searched for: ast, BLA and zz.
Names == { << "a", "s", "t" >>, << "B", "L", "A" >>, << "z", "z" >> }

Html(content) == [kind |-> "html", content |-> content]
\* A 200 answer with an empty body: "" is falsy.
NoBody == [kind |-> "nobody"]

\* The /matches page: its upcoming matches and its .liveMatches section.
MatchesPage(matches, section, containers) ==
    Html([matches |-> matches, section |-> section, containers |-> containers])

MatchesPages ==
    { MatchesPage(<< >>, TRUE, << >>),
      MatchesPage(<< MatchEntry("m1") >>, FALSE, << >>),
      MatchesPage(<< MatchEntry("m1") >>, TRUE, << Container("m1") >>),
      MatchesPage(<< MatchEntry("m1") >>, TRUE,
                  << ContainerNoLink, Container("m1"), ContainerRaises,
                     Container("") >>) }

ResultsPages ==
    { Html([results |-> rs]) :
        rs \in { << >>, << MatchEntry("") >>,
                 << MatchEntry(""), MatchEntry("m1") >> } }

RankingPages == { Html([teams |-> ts]) : ts \in { << >>, TeamsShort, TeamsLong } }

\* A match page, a statistics page or a player page: the parser finds the
\* record or it does not.
RecordPages == { Html([parsed |-> b]) : b \in BOOLEAN }

\* The pages an address can answer with.
Pages(url) ==
    CASE url = "/matches" -> MatchesPages
      [] url = "/results" -> ResultsPages
      [] url = "/ranking/teams" -> RankingPages
      [] OTHER -> RecordPages

\* What awaiting self._fetch(url) gives: None, an empty body or a page.
FetchOutcomes(url) == {None, NoBody} \cup Pages(url)

\* if not html
NotHtml(html) == html = None \/ html = NoBody

\* The records the parsers build.
MatchDetail(match_id) == [kind |-> "MatchDetail", match_id |-> match_id]
MapStats(stats_url) == [kind |-> "MapStats", url |-> stats_url]
PlayerInfo(player_id) == [kind |-> "PlayerInfo", player_id |-> player_id]

\* Python truth of a returned or cached value.
Truthy(v) == v # None /\ ~(v.kind = "list" /\ v.items = << >>)

\* if cached:
Hit(cached) == cached # None /\ Truthy(cached.value)

\* items[:max]
Slice(items, max) == SubSeq(items, 1, Min(max, Len(items)))

\* What a sequence operation returns from the full list.
Returned_List(call, items) ==
    IF call.op \in {"get_results", "get_rankings"}
    THEN List(Slice(items, call.max))
    ELSE List(items)

\* Mutant: a failed fetch is answered with a made-up entry.
Unavailable_Fabricated(call) ==
    IF call.op \in SequenceOps THEN List(<< MatchEntry("m1") >>)
    ELSE MatchDetail(call.id)

\* return [] / return None
Unavailable(call) ==
    IF call.op \in SequenceOps THEN List(<< >>) ELSE None

\* The list a listing operation extracts from its page.
Extract(call, content) ==
    CASE call.op = "get_matches" -> content.matches
      [] call.op = "get_results" -> content.results
      [] call.op = "get_rankings" -> content.teams

\* _parse_match_detail, _parse_map_stats, _parse_player_info
ParseRecord(call, content) ==
    IF content.parsed
    THEN CASE call.op = "get_match_detail" -> MatchDetail(call.id)
           [] call.op = "get_map_stats" -> MapStats(call.url)
           [] call.op = "get_player_info" -> PlayerInfo(call.id)
    ELSE None

\* Mutant: the first entry is taken, whatever its id.
FindUrl_First(items, match_id) ==
    IF items = << >> THEN "" ELSE items[1].url

\* for m in matches: if m["match_id"] == match_id: match_url = m["url"]; break
FindUrl(items, match_id) ==
    IF \E i \in 1..Len(items) : items[i].match_id = match_id
    THEN LET i == CHOOSE i \in 1..Len(items) :
                    /\ items[i].match_id = match_id
                    /\ \A j \in 1..(i - 1) : items[j].match_id # match_id
         IN  items[i].url
    ELSE ""

\* Mutant: the last matching team is returned.
FirstMatch_Last(teams, name) ==
    LET hits == { i \in 1..Len(teams) : Contains(Lower(teams[i].name), Lower(name)) }
    IN  IF hits = {} THEN None
        ELSE teams[CHOOSE i \in hits : \A j \in hits : j <= i]

\* for team in teams: if name_lower in team.name.lower(): return team
FirstMatch(teams, name) ==
    LET hits == { i \in 1..Len(teams) : Contains(Lower(teams[i].name), Lower(name)) }
    IN  IF hits = {} THEN None
        ELSE teams[CHOOSE i \in hits : \A j \in hits : i <= j]

\* ---- one operation as a coroutine ----
\* A running operation is a stack of frames, the callee on top; s holds the
\* stack, the operations entered with what they returned, the fetches issued
\* and the cache, and every operator below runs the code up to the next
\* await of self._fetch.

Frame(call, cached, ix) ==
    [call |-> call, pc |-> "enter", url |-> "", cached |-> cached, ix |-> ix,
     items |-> << >>, todo |-> << >>]

Push(s, f) == [s EXCEPT !.stack = Append(@, f)]
Pop(s) == [s EXCEPT !.stack = SubSeq(@, 1, Len(@) - 1)]
Top(stack) == stack[Len(stack)]

\* html = await self._fetch(url): the frame waits at the place named.
Await(s, f, place, url) ==
    [s EXCEPT !.stack = Append(@, [f EXCEPT !.pc = place, !.url = url]),
              !.fetched = Append(@, [op |-> f.call.op, url |-> url,
                                     html |-> Pending])]

RECURSIVE Enter(_, _), Return(_, _, _), Resume(_, _, _)

\* The body of an operation from its first line to its first await.
Enter(s0, call) ==
    LET ix == Len(s0.trace) + 1
        s == [s0 EXCEPT !.trace = Append(@, [op |-> call.op, ret |-> Pending])]
        cached == GetCache(s.cache, now, Key(call), CacheType(call))
        f == Frame(call, cached, ix)
    IN  IF call.op = "search_team"
        THEN Enter(Push(s, [f EXCEPT !.pc = "rankings"]),
                   GetRankingsCall(RankLimit))
        ELSE IF call.op = "get_map_stats" /\ call.url = ""
        THEN Return(s, ix, None)
        ELSE IF Hit(cached)
        THEN Return(s, ix, IF call.op \in SequenceOps
                           THEN Returned_List(call, cached.value.items)
                           ELSE cached.value)
        ELSE IF call.op = "get_match_detail" /\ call.url = ""
        THEN Enter(Push(s, [f EXCEPT !.pc = "matches"]), GetMatchesCall)
        ELSE Await(s, f, "fetch", Url(call))

\* return v, from the operation entered as number ix: to the caller of the
\* outermost operation, or to the frame below.
Return(s0, ix, v) ==
    LET s == [s0 EXCEPT !.trace[ix].ret = v]
    IN  IF s.stack = << >>
        THEN s
        ELSE Resume(Pop(s), Top(s.stack), v)

\* The frame f goes on after the operation it awaited returned v.
Resume(s, f, v) ==
    IF f.call.op = "search_team"
    THEN Return(s, f.ix, FirstMatch(v.items, f.call.name))
    ELSE LET match_url == FindUrl(v.items, f.call.id)
         IN  IF match_url # ""
             THEN Await(s, f, "fetch", match_url)
             ELSE IF f.pc = "matches"
             THEN Enter(Push(s, [f EXCEPT !.pc = "results"]),
                        GetResultsCall(ResultsLimit))
             ELSE Return(s, f.ix, None)

RECURSIVE LiveLoop(_, _)

\* for match_container in live_section.select(".live-match-container")
LiveLoop(s, f) ==
    IF f.todo = << >>
    THEN Return([s EXCEPT !.cache = SetCache(@, now, Key(f.call), List(f.items))],
                f.ix, List(f.items))
    ELSE LET c == Head(f.todo)
         IN  IF c.kind # "parsed"
             THEN LiveLoop(s, [f EXCEPT !.todo = Tail(@)])
             ELSE IF f.call.fetch_details /\ c.match.url # ""
             THEN Await(s, f, "detail", c.match.url)
             ELSE LiveLoop(s, [f EXCEPT !.items = Append(@, c.match),
                                        !.todo = Tail(@)])

\* Mutant: a failed fetch stores the unavailable answer.
StoreFetched_AlsoFailure(c, call, html, value) ==
    SetCache(c, now, Key(call), IF NotHtml(html) THEN Unavailable(call) ELSE value)

\* self._set_cache(key, value) behind "if not html: return"
StoreFetched(c, call, html, value) ==
    IF NotHtml(html) THEN c ELSE SetCache(c, now, Key(call), value)

\* The frame f goes on after self._fetch returned html.
OnFetch(s, f, html) ==
    LET call == f.call
    IN  IF f.pc = "detail"
        THEN LET live_match == Head(f.todo).match
                 detailed == IF NotHtml(html) THEN None
                             ELSE IF html.content.parsed
                             THEN [live_match EXCEPT !.detailed = TRUE]
                             ELSE None
             IN  LiveLoop(s, [f EXCEPT
                                !.items = Append(@, IF detailed # None
                                                    THEN detailed ELSE live_match),
                                !.todo = Tail(@)])
        ELSE IF NotHtml(html)
        THEN Return([s EXCEPT !.cache = StoreFetched(@, call, html, None)],
                    f.ix, Unavailable(call))
        ELSE IF call.op \in ListingOps
        THEN LET items == Extract(call, html.content)
             IN  Return([s EXCEPT !.cache = StoreFetched(@, call, html, List(items))],
                        f.ix, Returned_List(call, items))
        ELSE IF call.op = "get_live_matches"
        THEN IF html.content.section
             THEN LiveLoop(s, [f EXCEPT !.todo = html.content.containers])
             ELSE Return(s, f.ix, List(<< >>))
        ELSE LET record == ParseRecord(call, html.content)
             IN  Return([s EXCEPT !.cache = IF Truthy(record)
                                            THEN StoreFetched(@, call, html, record)
                                            ELSE @],
                        f.ix, record)

\* ---- the tasks ----

NoCall == Call("")

\* A task: its running operation, and of the operation it ran last the
\* call, what the cache held for its key, the operations entered, the
\* fetches issued and the entry it wrote.
Task(left) ==
    [stack |-> << >>, call |-> NoCall, cached0 |-> None, trace |-> << >>,
     fetched |-> << >>, wrote |-> None, left |-> left]

\* Instants at which the clock is read: 0 and the longest TTL, at which
\* every entry written at 0 has expired.
QueryInstants == {0, cache_ttl["rankings"]}

\* No query task exists.
QueryIdle == tasks = << >>

\* A match page: its .countdown and .liveMatch elements, its
\* .preformatted-text element and its .mapholder elements.
MatchPage(countdown, live, elem, holders) ==
    [countdown |-> countdown, live |-> live, format_elem |-> elem,
     mapholders |-> holders]

\* No page is being parsed.
DetailIdle ==
    /\ soup = MatchPage(FALSE, FALSE, NoElem, << >>)
    /\ detail = Pending

\* No statistics table is being parsed.
StatsIdle ==
    /\ table = << >>
    /\ row_index = 0
    /\ players = << >>
    /\ stats_pc = "idle"

\* PlaywrightProvider.__init__, and no operation running.
BrowserIdle ==
    /\ pw_initialized = FALSE
    /\ pw_browser = 0
    /\ pw_context = 0
    /\ launches = 0
    /\ contexts = 0
    /\ open_pages = {}
    /\ pw_ops = << >>
    /\ pw_closed = FALSE

\* self.max_history
max_history == 100

\* The matches a snapshot can name: the match followed through its scores,
\* and enough others to emit more than max_history events in one call.
TrackedMatch == 1
OtherMatches == 2..(max_history + 2)
DetectorMatches == {TrackedMatch} \cup OtherMatches

\* An entry of self.previous_matches; seen is "match_id in
\* self.previous_matches".
NotSeen == [seen |-> FALSE, score1 |-> 0, score2 |-> 0]

\* MatchEventDetector.__init__
DetectorNew ==
    /\ previous_matches = [id \in DetectorMatches |-> NotSeen]
    /\ event_history = << >>
    /\ emitted = << >>
    /\ returned = << >>
    /\ snapshots = << >>
    /\ detect_calls = 0

\* Task t calls an operation and runs it to its first await or to its end.
\* Tasks are interchangeable: they make their first call in the order of
\* their numbers.
Begin(t, call) ==
    /\ tasks[t].stack = << >>
    /\ tasks[t].left > 0
    /\ \A u \in DOMAIN tasks : u < t => tasks[u].call # NoCall
    /\ LET s == Enter([stack |-> << >>, trace |-> << >>, fetched |-> << >>,
                       cache |-> cache], call)
       IN  /\ tasks' = [tasks EXCEPT ![t] =
                          [stack |-> s.stack, call |-> call,
                           cached0 |-> GetCache(cache, now, Key(call), CacheType(call)),
                           trace |-> s.trace, fetched |-> s.fetched,
                           wrote |-> None, left |-> tasks[t].left - 1]]
           /\ cache' = s.cache
    /\ UNCHANGED << now, got, set_log >>

GetMatches == \E t \in DOMAIN tasks : Begin(t, GetMatchesCall)

GetLiveMatches ==
    \E t \in DOMAIN tasks, fetch_details \in BOOLEAN :
        Begin(t, GetLiveMatchesCall(fetch_details))

GetResults ==
    \E t \in DOMAIN tasks, max_results \in {1, DefaultMax} :
        Begin(t, GetResultsCall(max_results))

GetRankings ==
    \E t \in DOMAIN tasks, max_teams \in {1, DefaultMax} :
        Begin(t, GetRankingsCall(max_teams))

GetMatchDetail ==
    \E t \in DOMAIN tasks, match_id \in MatchIds, match_url \in {"", MatchUrl("m1")} :
        Begin(t, GetMatchDetailCall(match_id, match_url))

GetMapStats ==
    \E t \in DOMAIN tasks, stats_url \in {"", StatsUrl} :
        Begin(t, GetMapStatsCall(stats_url))

GetPlayerInfo ==
    \E t \in DOMAIN tasks, player_id \in PlayerIds :
        Begin(t, GetPlayerInfoCall(player_id))

SearchTeam ==
    \E t \in DOMAIN tasks, name \in Names : Begin(t, SearchTeamCall(name))

\* The entry of the key in the store c2 when it is not the one of c1.
Written(c1, c2, key) ==
    IF key \in DOMAIN c2 /\ (key \notin DOMAIN c1 \/ c1[key] # c2[key])
    THEN [key |-> key, entry |-> c2[key]]
    ELSE None

\* The fetch a task awaits returns.
FetchReturns ==
    /\ \E t \in DOMAIN tasks :
         /\ tasks[t].stack # << >>
         /\ LET k == tasks[t]
                f == Top(k.stack)
                n == Len(k.fetched)
            IN  \E html \in FetchOutcomes(f.url) :
                  LET s == OnFetch([stack |-> SubSeq(k.stack, 1, Len(k.stack) - 1),
                                    trace |-> k.trace,
                                    fetched |-> [k.fetched EXCEPT ![n].html = html],
                                    cache |-> cache], f, html)
                      w == Written(cache, s.cache, Key(f.call))
                  IN  /\ tasks' = [tasks EXCEPT ![t] =
                                     [k EXCEPT !.stack = s.stack,
                                               !.trace = s.trace,
                                               !.fetched = s.fetched,
                                               !.wrote = IF w # None THEN w ELSE @]]
                      /\ cache' = s.cache
    /\ UNCHANGED << now, got, set_log >>

\* Time passes.
QueryTick ==
    /\ \E i \in QueryInstants : i > now /\ now' = i
    /\ UNCHANGED << tasks, cache, got, set_log >>

NextQuery ==
    \/ GetMatches /\ UNCHANGED << inferVars, fetchVars, managerVars, detailVars,
                    statsVars, browserVars, detectorVars >>
    \/ GetLiveMatches /\ UNCHANGED << inferVars, fetchVars, managerVars, detailVars,
                    statsVars, browserVars, detectorVars >>
    \/ GetResults /\ UNCHANGED << inferVars, fetchVars, managerVars, detailVars,
                    statsVars, browserVars, detectorVars >>
    \/ GetRankings /\ UNCHANGED << inferVars, fetchVars, managerVars, detailVars,
                    statsVars, browserVars, detectorVars >>
    \/ GetMatchDetail /\ UNCHANGED << inferVars, fetchVars, managerVars, detailVars,
                    statsVars, browserVars, detectorVars >>
    \/ GetMapStats /\ UNCHANGED << inferVars, fetchVars, managerVars, detailVars,
                    statsVars, browserVars, detectorVars >>
    \/ GetPlayerInfo /\ UNCHANGED << inferVars, fetchVars, managerVars, detailVars,
                    statsVars, browserVars, detectorVars >>
    \/ SearchTeam /\ UNCHANGED << inferVars, fetchVars, managerVars, detailVars,
                    statsVars, browserVars, detectorVars >>
    \/ FetchReturns /\ UNCHANGED << inferVars, fetchVars, managerVars, detailVars,
                    statsVars, browserVars, detectorVars >>
    \/ QueryTick /\ UNCHANGED << inferVars, fetchVars, managerVars, detailVars,
                    statsVars, browserVars, detectorVars >>

NextConcurrent ==
    \/ GetLiveMatches /\ UNCHANGED << inferVars, fetchVars, managerVars, detailVars,
                    statsVars, browserVars, detectorVars >>
    \/ FetchReturns /\ UNCHANGED << inferVars, fetchVars, managerVars, detailVars,
                    statsVars, browserVars, detectorVars >>
    \/ QueryTick /\ UNCHANGED << inferVars, fetchVars, managerVars, detailVars,
                    statsVars, browserVars, detectorVars >>

----------------------------------------------------------------------------
(* HLTVScraper._fetch *)

\* What one curl_requests.get can do: answer with a status and a body, or
\* raise (timeout, connection error).
Statuses == {200, 403, 500}
Bodies == {"", "<html>a</html>", "<html>b</html>"}
Outcomes ==
    [kind : {"response"}, status_code : Statuses, text : Bodies]
      \cup {[kind |-> "exception"]}

Sleep(secs) == [ev |-> "sleep", secs |-> secs]
Request(i, o) == [ev |-> "request", attempt |-> i, outcome |-> o]

Text(t) == [kind |-> "text", text |-> t]

\* Mutant: one attempt too many.
AttemptsLeft_OneMore(i, n) == i <= n

\* for attempt in range(retries)
AttemptsLeft(i, n) == i < n

\* Mutant: the backoff forgets its base second.
Backoff_NoBase(i) == i

\* asyncio.sleep(1 + attempt)
Backoff(i) == 1 + i

\* Mutant: every status below 500 counts as a success.
IsSuccess_Below500(status_code) == status_code < 500

\* response.status_code == 200
IsSuccess(status_code) == status_code = 200

\* No call of _fetch is in progress.
FetchIdle ==
    /\ HAS_DEPENDENCIES = TRUE
    /\ retries = 0
    /\ attempt = 0
    /\ fetch_pc = "idle"
    /\ fetch_trace = << >>
    /\ fetch_result = Pending

\* if not HAS_DEPENDENCIES: return None
FetchEnter ==
    /\ fetch_pc = "call"
    /\ IF HAS_DEPENDENCIES
       THEN /\ fetch_pc' = "loop"
            /\ fetch_result' = fetch_result
       ELSE /\ fetch_pc' = "done"
            /\ fetch_result' = None
    /\ attempt' = 0
    /\ UNCHANGED << HAS_DEPENDENCIES, retries, fetch_trace >>
    /\ UNCHANGED << inferVars, cacheVars, managerVars, queryVars, detailVars,
                    statsVars, browserVars, detectorVars >>

\* The head of an iteration: if attempt > 0: await asyncio.sleep(1 + attempt)
FetchBackoff ==
    /\ fetch_pc = "loop"
    /\ AttemptsLeft(attempt, retries)
    /\ fetch_trace' = IF attempt > 0
                      THEN Append(fetch_trace, Sleep(Backoff(attempt)))
                      ELSE fetch_trace
    /\ fetch_pc' = "request"
    /\ UNCHANGED << HAS_DEPENDENCIES, retries, attempt, fetch_result >>
    /\ UNCHANGED << inferVars, cacheVars, managerVars, queryVars, detailVars,
                    statsVars, browserVars, detectorVars >>

\* The request of an iteration and the branches on its outcome: 200 returns
\* the body; 403, another status and an exception go to the next attempt.
FetchRequest ==
    /\ fetch_pc = "request"
    /\ \E o \in Outcomes :
         /\ fetch_trace' = Append(fetch_trace, Request(attempt, o))
         /\ IF o.kind = "response" /\ IsSuccess(o.status_code)
            THEN /\ fetch_result' = Text(o.text)
                 /\ fetch_pc' = "done"
                 /\ attempt' = attempt
            ELSE /\ fetch_result' = fetch_result
                 /\ fetch_pc' = "loop"
                 /\ attempt' = attempt + 1
    /\ UNCHANGED << HAS_DEPENDENCIES, retries >>
    /\ UNCHANGED << inferVars, cacheVars, managerVars, queryVars, detailVars,
                    statsVars, browserVars, detectorVars >>

\* The loop is over: return None
FetchExhausted ==
    /\ fetch_pc = "loop"
    /\ ~AttemptsLeft(attempt, retries)
    /\ fetch_result' = None
    /\ fetch_pc' = "done"
    /\ UNCHANGED << HAS_DEPENDENCIES, retries, attempt, fetch_trace >>
    /\ UNCHANGED << inferVars, cacheVars, managerVars, queryVars, detailVars,
                    statsVars, browserVars, detectorVars >>

\* No call of _fetch_live_match_detail is in progress.
InferIdle ==
    /\ pc = "idle"
    /\ mapholders = << >>
    /\ format_elem = NoElem
    /\ live_format = ""
    /\ mh_index = 0
    /\ team1_maps_won = 0
    /\ team2_maps_won = 0
    /\ current_map = ""
    /\ current_map_t1_score = 0
    /\ current_map_t2_score = 0
    /\ match_format = ""
    /\ result = Pending

\* A call _fetch(url, retries), with or without the dependencies installed.
InitFetch ==
    /\ HAS_DEPENDENCIES \in BOOLEAN
    /\ retries \in 0..MaxRetries
    /\ attempt = 0
    /\ fetch_pc = "call"
    /\ fetch_trace = << >>
    /\ fetch_result = Pending
    /\ InferIdle
    /\ CacheNew
    /\ ManagerNew
    /\ QueryIdle
    /\ DetailIdle
    /\ StatsIdle
    /\ BrowserIdle
    /\ DetectorNew

\* A new scraper and its cache.
InitCache ==
    /\ CacheNew
    /\ InferIdle
    /\ FetchIdle
    /\ ManagerNew
    /\ QueryIdle
    /\ DetailIdle
    /\ StatsIdle
    /\ BrowserIdle
    /\ DetectorNew

SpecCache == InitCache /\ [][NextCache]_vars

\* A new manager.
InitManager ==
    /\ ManagerNew
    /\ QueryIdle
    /\ DetailIdle
    /\ StatsIdle
    /\ BrowserIdle
    /\ DetectorNew
    /\ CacheNew
    /\ InferIdle
    /\ FetchIdle

SpecManager == InitManager /\ [][NextManager]_vars

\* One task calling the query operations one after the other.
InitQuery ==
    /\ tasks = [t \in {1} |-> Task(MaxCalls)]
    /\ CacheNew
    /\ InferIdle
    /\ FetchIdle
    /\ ManagerNew
    /\ DetailIdle
    /\ StatsIdle
    /\ BrowserIdle
    /\ DetectorNew

SpecQuery == InitQuery /\ [][NextQuery]_vars

\* MaxTasks tasks, each calling get_live_matches once.
InitConcurrent ==
    /\ tasks = [t \in 1..MaxTasks |-> Task(1)]
    /\ CacheNew
    /\ InferIdle
    /\ FetchIdle
    /\ ManagerNew
    /\ DetailIdle
    /\ StatsIdle
    /\ BrowserIdle
    /\ DetectorNew

SpecConcurrent == InitConcurrent /\ [][NextConcurrent]_vars

NextFetch == FetchEnter \/ FetchBackoff \/ FetchRequest \/ FetchExhausted

SpecFetch == InitFetch /\ [][NextFetch]_vars

----------------------------------------------------------------------------
(* HLTVScraper._fetch_live_match_detail *)

\* Mutant: only team 1 can finish a map.
IsFinished_Team1Only(t1_score, t2_score) ==
    t1_score >= 13 /\ t1_score - t2_score >= 2

\* Mutant: a map is finished only with a lead of three.
IsFinished_LeadThree(t1_score, t2_score) ==
    \/ (t1_score >= 13 /\ t1_score - t2_score >= 3)
    \/ (t2_score >= 13 /\ t2_score - t1_score >= 3)

\* The finished test of the map loop, on two parsed scores.
IsFinished(t1_score, t2_score) ==
    \/ (t1_score >= 13 /\ t1_score - t2_score >= 2)
    \/ (t2_score >= 13 /\ t2_score - t1_score >= 2)
    \/ (t1_score >= 13 /\ t2_score >= 13 /\
          (IF t1_score >= t2_score THEN t1_score - t2_score
                                   ELSE t2_score - t1_score) >= 2)

\* The locals before the loop.
InitialLocals ==
    [team1_maps_won |-> 0, team2_maps_won |-> 0, current_map |-> "",
     current_map_t1_score |-> 0, current_map_t2_score |-> 0]

\* Mutant: the first map in progress is kept, later ones are ignored.
RecordCurrent_KeepFirst(l, map_name, t1_score, t2_score) ==
    IF l.current_map = ""
    THEN [l EXCEPT !.current_map = map_name,
                   !.current_map_t1_score = t1_score,
                   !.current_map_t2_score = t2_score]
    ELSE l

\* The else branch: this is the map being played.
RecordCurrent(l, map_name, t1_score, t2_score) ==
    [l EXCEPT !.current_map = map_name,
              !.current_map_t1_score = t1_score,
              !.current_map_t2_score = t2_score]

\* The try block: int() of both texts, then the finished test.
ParseAndRecord(l, map_name, t1_score_text, t2_score_text) ==
    IF IsIntText(t1_score_text) /\ IsIntText(t2_score_text)
    THEN LET t1_score == IntOf(t1_score_text)
             t2_score == IntOf(t2_score_text)
         IN  IF IsFinished(t1_score, t2_score)
             THEN IF t1_score > t2_score
                  THEN [l EXCEPT !.team1_maps_won = @ + 1]
                  ELSE [l EXCEPT !.team2_maps_won = @ + 1]
             ELSE RecordCurrent(l, map_name, t1_score, t2_score)
    ELSE l      \* except ValueError: pass

\* Mutant: a not-started map clears the current map.
ProcessMapholder_DashResets(l, mh) ==
    IF Len(mh.scores) >= 2
    THEN IF mh.scores[1] # Dash /\ mh.scores[2] # Dash
         THEN ParseAndRecord(l, mh.map_name, mh.scores[1], mh.scores[2])
         ELSE [l EXCEPT !.current_map = "",
                        !.current_map_t1_score = 0,
                        !.current_map_t2_score = 0]
    ELSE l

\* One iteration of "for mh in mapholders" on the locals l.
ProcessMapholder(l, mh) ==
    IF Len(mh.scores) >= 2
    THEN LET t1_score_text == mh.scores[1]
             t2_score_text == mh.scores[2]
         IN  IF t1_score_text # Dash /\ t2_score_text # Dash
             THEN ParseAndRecord(l, mh.map_name, t1_score_text, t2_score_text)
             ELSE l
    ELSE l

\* Mutant: best of 3 is tested before best of 5.
DetectFormat_Bo3First(elem) ==
    IF elem.present
    THEN LET text == Lower(elem.text)
         IN  IF Contains(text, BestOf3) THEN "bo3"
             ELSE IF Contains(text, BestOf5) THEN "bo5"
             ELSE IF Contains(text, BestOf1) THEN "bo1"
             ELSE ""
    ELSE ""

\* The format read from the .preformatted-text element.
DetectFormat(elem) ==
    IF elem.present
    THEN LET text == Lower(elem.text)
         IN  IF Contains(text, BestOf5) THEN "bo5"
             ELSE IF Contains(text, BestOf3) THEN "bo3"
             ELSE IF Contains(text, BestOf1) THEN "bo1"
             ELSE ""
    ELSE ""

\* format=match_format or live_match.format
ReturnedFormat(detected, listing) ==
    IF detected # "" THEN detected ELSE listing

Locals ==
    [team1_maps_won |-> team1_maps_won, team2_maps_won |-> team2_maps_won,
     current_map |-> current_map,
     current_map_t1_score |-> current_map_t1_score,
     current_map_t2_score |-> current_map_t2_score]

\* html = await self._fetch(live_match.url); a failed fetch returns None.
FetchDetailPage ==
    /\ pc = "fetch"
    /\ \E html_ok \in BOOLEAN :
          IF html_ok
          THEN /\ pc' = "loop"
               /\ result' = result
          ELSE /\ pc' = "done"
               /\ result' = None
    /\ UNCHANGED << mapholders, format_elem, live_format, mh_index,
                    team1_maps_won, team2_maps_won, current_map,
                    current_map_t1_score, current_map_t2_score, match_format >>
    /\ UNCHANGED << fetchVars, cacheVars, managerVars, queryVars, detailVars,
                    statsVars, browserVars, detectorVars >>

\* One iteration of the map loop.
MapLoopStep ==
    /\ pc = "loop"
    /\ mh_index < Len(mapholders)
    /\ LET l == ProcessMapholder(Locals, mapholders[mh_index + 1])
       IN  /\ team1_maps_won' = l.team1_maps_won
           /\ team2_maps_won' = l.team2_maps_won
           /\ current_map' = l.current_map
           /\ current_map_t1_score' = l.current_map_t1_score
           /\ current_map_t2_score' = l.current_map_t2_score
    /\ mh_index' = mh_index + 1
    /\ UNCHANGED << pc, mapholders, format_elem, live_format, match_format,
                    result >>
    /\ UNCHANGED << fetchVars, cacheVars, managerVars, queryVars, detailVars,
                    statsVars, browserVars, detectorVars >>

\* After the loop: detect the format and return the LiveMatch.
FormatAndReturn ==
    /\ pc = "loop"
    /\ mh_index = Len(mapholders)
    /\ match_format' = DetectFormat(format_elem)
    /\ result' = [kind |-> "LiveMatch",
                  team1_map_score |-> team1_maps_won,
                  team2_map_score |-> team2_maps_won,
                  current_map |-> current_map,
                  team1_round_score |-> current_map_t1_score,
                  team2_round_score |-> current_map_t2_score,
                  format |-> ReturnedFormat(match_format', live_format)]
    /\ pc' = "done"
    /\ UNCHANGED << mapholders, format_elem, live_format, mh_index,
                    team1_maps_won, team2_maps_won, current_map,
                    current_map_t1_score, current_map_t2_score >>
    /\ UNCHANGED << fetchVars, cacheVars, managerVars, queryVars, detailVars,
                    statsVars, browserVars, detectorVars >>

InferStart ==
    /\ pc = "fetch"
    /\ mh_index = 0
    /\ team1_maps_won = InitialLocals.team1_maps_won
    /\ team2_maps_won = InitialLocals.team2_maps_won
    /\ current_map = InitialLocals.current_map
    /\ current_map_t1_score = InitialLocals.current_map_t1_score
    /\ current_map_t2_score = InitialLocals.current_map_t2_score
    /\ match_format = ""
    /\ result = Pending

\* Detail pages with up to MaxMaps mapholders.
InitInfer ==
    /\ mapholders \in SeqsUpTo(MapHolders, MaxMaps)
    /\ format_elem \in {NoElem, Elem(TextBo3Lan)}
    /\ live_format \in {"", "bo1"}
    /\ InferStart
    /\ FetchIdle
    /\ CacheNew
    /\ ManagerNew
    /\ QueryIdle
    /\ DetailIdle
    /\ StatsIdle
    /\ BrowserIdle
    /\ DetectorNew

\* Detail pages with every descriptor text and every listing format.
InitFormat ==
    /\ mapholders \in SeqsUpTo(MapHolders, MaxFormatMaps)
    /\ format_elem \in FormatElems
    /\ live_format \in ListingFormats
    /\ InferStart
    /\ FetchIdle
    /\ CacheNew
    /\ ManagerNew
    /\ QueryIdle
    /\ DetailIdle
    /\ StatsIdle
    /\ BrowserIdle
    /\ DetectorNew

NextInfer == FetchDetailPage \/ MapLoopStep \/ FormatAndReturn

SpecInfer == InitInfer /\ [][NextInfer]_vars

SpecFormat == InitFormat /\ [][NextInfer]_vars

----------------------------------------------------------------------------
(* HLTVScraper._parse_match_detail *)

MapResult(map_name, team1_score, team2_score) ==
    [map_name |-> map_name, team1_score |-> team1_score,
     team2_score |-> team2_score]

\* _parse_map_result: a score is 0 when its element is missing, and the map
\* is dropped (None) when int() raises on a score text.
ParseMapResult(mapholder) ==
    LET scores == mapholder.scores
    IN  IF \A i \in 1..Min(2, Len(scores)) : IsIntText(scores[i])
        THEN MapResult(mapholder.map_name,
                       IF Len(scores) > 0 THEN IntOf(scores[1]) ELSE 0,
                       IF Len(scores) > 1 THEN IntOf(scores[2]) ELSE 0)
        ELSE None

RECURSIVE ParseMaps(_)

\* for mapholder in soup.select(".mapholder"): if map_result: maps.append
ParseMaps(holders) ==
    IF holders = << >> THEN << >>
    ELSE LET map_result == ParseMapResult(Head(holders))
         IN  IF map_result # None
             THEN << map_result >> \o ParseMaps(Tail(holders))
             ELSE ParseMaps(Tail(holders))

\* status = "finished"; "scheduled" with a countdown, else "live" with a
\* live element
PageStatus(page) ==
    IF page.countdown THEN "scheduled"
    ELSE IF page.live THEN "live"
    ELSE "finished"

\* _parse_match_detail(soup, match_id)
ParseMatchDetail(page, match_id) ==
    [match_id |-> match_id, status |-> PageStatus(page),
     format |-> DetectFormat(page.format_elem),
     maps |-> ParseMaps(page.mapholders)]

\* The parser runs on the page.
ParsePage ==
    /\ detail = Pending
    /\ detail' = ParseMatchDetail(soup, "m1")
    /\ UNCHANGED soup
    /\ UNCHANGED << inferVars, fetchVars, cacheVars, managerVars, queryVars,
                    statsVars, browserVars, detectorVars >>

\* Match pages with up to MaxMaps mapholders.
InitDetail ==
    /\ soup \in { MatchPage(c, l, e, hs) :
                    c \in BOOLEAN, l \in BOOLEAN, e \in {NoElem, Elem(TextBo3Lan)},
                    hs \in SeqsUpTo(MapHolders, MaxMaps) }
    /\ detail = Pending
    /\ InferIdle
    /\ FetchIdle
    /\ CacheNew
    /\ ManagerNew
    /\ QueryIdle
    /\ StatsIdle
    /\ BrowserIdle
    /\ DetectorNew

NextDetail == ParsePage

SpecDetail == InitDetail /\ [][NextDetail]_vars

----------------------------------------------------------------------------
(* HLTVScraper._parse_stats_table *)

\* Characters str.isdigit() accepts: the decimal digits and, among others,
\* the superscript digits, which int() and float() reject.
Superscript2 == "^2"
IsDigitChar(c) == c \in DOMAIN DigitVal \/ c = Superscript2

\* text.isdigit()
IsDigit(t) == Len(t) > 0 /\ \A i \in 1..Len(t) : IsDigitChar(t[i])

RECURSIVE StripLeft(_), StripRight(_)
StripLeft(t) == IF Len(t) > 0 /\ t[1] = " " THEN StripLeft(Tail(t)) ELSE t
StripRight(t) ==
    IF Len(t) > 0 /\ t[Len(t)] = " "
    THEN StripRight(SubSeq(t, 1, Len(t) - 1)) ELSE t

\* text.strip()
Strip(t) == StripRight(StripLeft(t))

\* The position of the first c in t, 0 when there is none.
IndexOf(t, c) ==
    IF \E i \in 1..Len(t) : t[i] = c
    THEN CHOOSE i \in 1..Len(t) : t[i] = c /\ \A j \in 1..(i - 1) : t[j] # c
    ELSE 0

\* text.split(c)[0] and text.split(c)[1], for a text that holds c.
Part0(t, c) == SubSeq(t, 1, IndexOf(t, c) - 1)
Part1(t, c) ==
    LET rest == SubSeq(t, IndexOf(t, c) + 1, Len(t))
        j == IndexOf(rest, c)
    IN  IF j = 0 THEN rest ELSE SubSeq(rest, 1, j - 1)

\* text.replace(c, "")
Remove(t, c) == SelectSeq(t, LAMBDA x : x # c)

\* float(text) succeeds: digits with at most one point and at least one
\* digit (texts are over the digits, the point and characters float()
\* rejects).
IsFloatText(t) ==
    /\ \A i \in 1..Len(t) : t[i] \in DOMAIN DigitVal \/ t[i] = "."
    /\ Len(SelectSeq(t, LAMBDA x : x = ".")) <= 1
    /\ \E i \in 1..Len(t) : t[i] \in DOMAIN DigitVal

\* float(text) in hundredths, for a text on which it does not raise; the
\* texts of the model carry at most two decimals.
FloatOf(t) ==
    LET p == IndexOf(t, ".")
        whole == IF p = 0 THEN t ELSE SubSeq(t, 1, p - 1)
        frac == IF p = 0 THEN << >> ELSE SubSeq(t, p + 1, Len(t))
    IN  100 * DigitsValue(whole)
          + (IF Len(frac) = 0 THEN 0
             ELSE IF Len(frac) = 1 THEN 10 * DigitVal[frac[1]]
             ELSE 10 * DigitVal[frac[1]] + DigitVal[frac[2]])

\* The digits t starts with: what re.match(r"(\d+)", t) captures.
LeadingDigits(t) ==
    LET n == CHOOSE k \in 0..Len(t) :
                /\ \A i \in 1..k : t[i] \in DOMAIN DigitVal
                /\ (k < Len(t) => t[k + 1] \notin DOMAIN DigitVal)
    IN  SubSeq(t, 1, n)

\* int(m.group(1)) if m else 0, for m = re.match(r"(\d+)", t)
MatchInt(t) ==
    IF LeadingDigits(t) = << >> THEN 0 ELSE DigitsValue(LeadingDigits(t))

\* int(m.group(1)) if m else 0, for m = re.search(r"\((\d+)\)", t)
SearchParenInt(t) ==
    LET starts == { i \in 1..Len(t) :
                      /\ t[i] = "("
                      /\ LET d == LeadingDigits(SubSeq(t, i + 1, Len(t)))
                         IN  /\ d # << >>
                             /\ i + Len(d) + 1 <= Len(t)
                             /\ t[i + Len(d) + 1] = ")" }
    IN  IF starts = {} THEN 0
        ELSE LET i == CHOOSE i \in starts : \A j \in starts : i <= j
             IN  DigitsValue(LeadingDigits(SubSeq(t, i + 1, Len(t))))

\* cols[k], counted from 0 as in the source.
Col(cols, k) == cols[k + 1]

\* [1] Opening K-D: the guard is isdigit(), the conversion is int().
OpeningRaises(ok_text) ==
    /\ IndexOf(ok_text, ":") # 0
    /\ \E part \in {Strip(Part0(ok_text, ":")), Strip(Part1(ok_text, ":"))} :
          IsDigit(part) /\ ~IsIntText(part)

FirstKills(ok_text) ==
    IF IndexOf(ok_text, ":") # 0 /\ IsDigit(Strip(Part0(ok_text, ":")))
    THEN IntOf(Strip(Part0(ok_text, ":"))) ELSE 0

FirstDeaths(ok_text) ==
    IF IndexOf(ok_text, ":") # 0 /\ IsDigit(Strip(Part1(ok_text, ":")))
    THEN IntOf(Strip(Part1(ok_text, ":"))) ELSE 0

\* [4] KAST: float(kast_text) if kast_text.replace(".", "").isdigit()
KastRaises(kast_text) ==
    IsDigit(Remove(kast_text, ".")) /\ ~IsFloatText(kast_text)

Kast(kast_text) ==
    IF IsDigit(Remove(kast_text, ".")) THEN FloatOf(kast_text) ELSE 0

\* [12] ADR: try: float(adr_text) except: 0.0
Adr(cols) ==
    LET adr_text == IF Len(cols) > 12 THEN Col(cols, 12) ELSE << "0" >>
    IN  IF IsFloatText(adr_text) THEN FloatOf(adr_text) ELSE 0

\* [17] Rating: try: float(cols[-1] text) except: 0.0
Rating(cols) ==
    LET rating_text == cols[Len(cols)]
    IN  IF IsFloatText(rating_text) THEN FloatOf(rating_text) ELSE 0

\* The body of the row loop raises: the exception leaves the loop.
RowRaises(cols) ==
    OpeningRaises(Col(cols, 1)) \/ KastRaises(Remove(Col(cols, 4), "%"))

\* The PlayerStats of a row with at least 12 columns that does not raise.
ParseRow(cols) ==
    [nickname |-> Col(cols, 0),
     kills |-> MatchInt(Col(cols, 7)),
     deaths |-> MatchInt(Col(cols, 10)),
     assists |-> MatchInt(Col(cols, 9)),
     kast |-> Kast(Remove(Col(cols, 4), "%")),
     headshots |-> SearchParenInt(Col(cols, 7)),
     rating |-> Rating(cols),
     adr |-> Adr(cols),
     first_kills |-> FirstKills(Col(cols, 1)),
     first_deaths |-> FirstDeaths(Col(cols, 1)),
     clutches |-> Col(cols, 6)]

\* if len(cols) < 12: continue
MinCols == 12
Skipped(cols) == Len(cols) < MinCols

\* ---- the tables ----

Other == << "x" >>

\* A row of the 18 columns of the page.
Row18(nick, ok, kast, k_hs, a_f, d_t, adr, e_adr, rating) ==
    << nick, ok, Other, Other, kast, Other, << "1" >>, k_hs, Other, a_f, d_t, Other, adr, e_adr,
       kast, Other, Other, rating >>

RowA ==
    Row18(<< "s", "1" >>, << "3", ":", "2" >>, << "7", "5", ".", "0", "%" >>,
          << "2", "0", "(", "8", ")" >>, << "5", "(", "1", ")" >>,
          << "1", "5", "(", "3", ")" >>, << "8", "0", ".", "5" >>,
          << "7", "5", ".", "1" >>, << "1", ".", "2", "3" >>)

RowB ==
    Row18(<< "z", "y" >>, << "1", ":", "4" >>, << "6", "0", "%" >>,
          << "9", "(", "2", ")" >>, << "2", "(", "0", ")" >>,
          << "1", "8", "(", "5", ")" >>, << "5", "5", ".", "0" >>,
          << "5", "0", ".", "2" >>, << "0", ".", "7", "1" >>)

\* What the two rows stand for, floats in hundredths.
PlayerA ==
    [nickname |-> << "s", "1" >>, kills |-> 20, deaths |-> 15, assists |-> 5,
     kast |-> 7500, headshots |-> 8, rating |-> 123, adr |-> 8050,
     first_kills |-> 3, first_deaths |-> 2, clutches |-> << "1" >>]
PlayerB ==
    [nickname |-> << "z", "y" >>, kills |-> 9, deaths |-> 18, assists |-> 2,
     kast |-> 6000, headshots |-> 2, rating |-> 71, adr |-> 5500,
     first_kills |-> 1, first_deaths |-> 4, clutches |-> << "1" >>]

WellFormed == { [row |-> RowA, player |-> PlayerA],
                [row |-> RowB, player |-> PlayerB] }

\* The row without its ADR cell: the cells after it move one place left.
WithoutAdr(row) == SubSeq(row, 1, 12) \o SubSeq(row, 14, Len(row))

\* The row with another text in cell k.
WithCell(row, k, text) == [row EXCEPT ![k + 1] = text]

\* Rows a table is made of: the two well-formed rows, a row without its ADR
\* cell, rows of 11 and of 12 cells, a row whose ADR and rating cells are
\* dashes, and rows whose KAST cell has two points or whose opening cell
\* has a superscript digit.
StatsRows ==
    { RowA, RowB, WithoutAdr(RowA),
      SubSeq(RowA, 1, 11), SubSeq(RowB, 1, 12),
      WithCell(WithCell(RowB, 12, Dash), 17, Dash),
      WithCell(RowA, 4, << "7", ".", "1", ".", "5", "%" >>),
      WithCell(RowB, 1, << Superscript2, ":", "1" >>) }

\* ---- the loop ----

\* One iteration of "for row in rows": the row is skipped, appended, or
\* raises into the except clause around the loop, which ends the parsing.
ParseStatsRow ==
    /\ stats_pc = "rows"
    /\ row_index < Len(table)
    /\ LET cols == table[row_index + 1]
       IN  IF Skipped(cols)
           THEN UNCHANGED << players, stats_pc >>
           ELSE IF RowRaises(cols)
           THEN /\ stats_pc' = "done"
                /\ UNCHANGED players
           ELSE /\ players' = Append(players, ParseRow(cols))
                /\ UNCHANGED stats_pc
    /\ row_index' = row_index + 1
    /\ UNCHANGED table
    /\ UNCHANGED << inferVars, fetchVars, cacheVars, managerVars, queryVars,
                    detailVars, browserVars, detectorVars >>

\* return players, after the last row.
StatsReturn ==
    /\ stats_pc = "rows"
    /\ row_index = Len(table)
    /\ stats_pc' = "done"
    /\ UNCHANGED << table, row_index, players >>
    /\ UNCHANGED << inferVars, fetchVars, cacheVars, managerVars, queryVars,
                    detailVars, browserVars, detectorVars >>

InitStats ==
    /\ table \in SeqsUpTo(StatsRows, MaxRows)
    /\ row_index = 0
    /\ players = << >>
    /\ stats_pc = "rows"
    /\ InferIdle
    /\ FetchIdle
    /\ CacheNew
    /\ ManagerNew
    /\ QueryIdle
    /\ DetailIdle
    /\ BrowserIdle
    /\ DetectorNew

NextStats == ParseStatsRow \/ StatsReturn

SpecStats == InitStats /\ [][NextStats]_vars

----------------------------------------------------------------------------
(* PlaywrightProvider (src/live_providers.py) *)

\* A task that has not called the provider yet.
NoOp == [op |-> "", url |-> "", pc |-> "idle", page |-> 0, ret |-> "pending"]

PageOps == {"get_live_matches", "get_match_live_data"}
PageUrls == {"", "/matches/m1"}

\* return [] / return None: the operation ends without data.
PwReturnEmpty(t) == [pw_ops EXCEPT ![t].pc = "done", ![t].ret = "empty"]

\* The operation of task t goes on after _ensure_init returned True: a
\* detail call without url returns None, the others ask the context for a
\* page.
AfterInit(ops, t) ==
    IF ops[t].op = "get_match_live_data" /\ ops[t].url = ""
    THEN [ops EXCEPT ![t].pc = "done", ![t].ret = "empty"]
    ELSE [ops EXCEPT ![t].pc = "new_page"]

\* A task calls get_live_matches() or get_match_live_data(match_id, url)
\* and runs to its first await: in _ensure_init when the provider is not
\* initialized, at new_page() otherwise. Tasks are interchangeable: they
\* make their calls in the order of their numbers.
PwCall ==
    /\ \E t \in DOMAIN pw_ops, op \in PageOps, url \in PageUrls :
         /\ pw_ops[t].pc = "idle"
         /\ \A u \in DOMAIN pw_ops : u < t => pw_ops[u].pc # "idle"
         /\ op = "get_live_matches" => url = ""
         /\ LET called == [pw_ops EXCEPT ![t].op = op, ![t].url = url]
            IN  pw_ops' = IF pw_initialized THEN AfterInit(called, t)
                          ELSE [called EXCEPT ![t].pc = "start"]
    /\ UNCHANGED << pw_initialized, pw_browser, pw_context, launches, contexts,
                    open_pages, pw_closed >>
    /\ UNCHANGED << inferVars, fetchVars, cacheVars, managerVars, queryVars,
                    detailVars, statsVars, detectorVars >>

\* await async_playwright().start() returns or raises (ImportError when
\* playwright is not installed).
PwStarted ==
    /\ \E t \in DOMAIN pw_ops, ok \in BOOLEAN :
         /\ pw_ops[t].pc = "start"
         /\ pw_ops' = IF ok THEN [pw_ops EXCEPT ![t].pc = "launch"]
                      ELSE PwReturnEmpty(t)
    /\ UNCHANGED << pw_initialized, pw_browser, pw_context, launches, contexts,
                    open_pages, pw_closed >>
    /\ UNCHANGED << inferVars, fetchVars, cacheVars, managerVars, queryVars,
                    detailVars, statsVars, detectorVars >>

\* self._browser = await ....launch(headless=...): a browser is launched,
\* or the launch raises.
PwLaunched ==
    /\ \E t \in DOMAIN pw_ops, ok \in BOOLEAN :
         /\ pw_ops[t].pc = "launch"
         /\ IF ok
            THEN /\ launches' = launches + 1
                 /\ pw_browser' = launches + 1
                 /\ pw_ops' = [pw_ops EXCEPT ![t].pc = "context"]
            ELSE /\ pw_ops' = PwReturnEmpty(t)
                 /\ UNCHANGED << launches, pw_browser >>
    /\ UNCHANGED << pw_initialized, pw_context, contexts, open_pages, pw_closed >>
    /\ UNCHANGED << inferVars, fetchVars, cacheVars, managerVars, queryVars,
                    detailVars, statsVars, detectorVars >>

\* self._context = await self._browser.new_context(...), then
\* self._initialized = True and the operation goes on; or new_context raises.
PwContextCreated ==
    /\ \E t \in DOMAIN pw_ops, ok \in BOOLEAN :
         /\ pw_ops[t].pc = "context"
         /\ IF ok
            THEN /\ contexts' = contexts + 1
                 /\ pw_context' = contexts + 1
                 /\ pw_initialized' = TRUE
                 /\ pw_ops' = AfterInit(pw_ops, t)
            ELSE /\ pw_ops' = PwReturnEmpty(t)
                 /\ UNCHANGED << contexts, pw_context, pw_initialized >>
    /\ UNCHANGED << pw_browser, launches, open_pages, pw_closed >>
    /\ UNCHANGED << inferVars, fetchVars, cacheVars, managerVars, queryVars,
                    detailVars, statsVars, detectorVars >>

\* page = await self._context.new_page(): the page is open, or the call
\* raises into the except clause, which returns [] / None.
PwNewPage ==
    /\ \E t \in DOMAIN pw_ops, ok \in BOOLEAN :
         /\ pw_ops[t].pc = "new_page"
         /\ IF ok
            THEN /\ open_pages' = open_pages \cup {t}
                 /\ pw_ops' = [pw_ops EXCEPT ![t].pc = "goto", ![t].page = t]
            ELSE /\ pw_ops' = PwReturnEmpty(t)
                 /\ UNCHANGED open_pages
    /\ UNCHANGED << pw_initialized, pw_browser, pw_context, launches, contexts,
                    pw_closed >>
    /\ UNCHANGED << inferVars, fetchVars, cacheVars, managerVars, queryVars,
                    detailVars, statsVars, detectorVars >>

\* except Exception: log, return [] / None.
PwRaised(t) ==
    /\ pw_ops' = PwReturnEmpty(t)
    /\ UNCHANGED open_pages

\* await page.goto(...) returns, or raises (timeout, navigation error).
PwNavigated ==
    /\ \E t \in DOMAIN pw_ops, ok \in BOOLEAN :
         /\ pw_ops[t].pc = "goto"
         /\ IF ok
            THEN /\ pw_ops' = [pw_ops EXCEPT ![t].pc = "read"]
                 /\ UNCHANGED open_pages
            ELSE PwRaised(t)
    /\ UNCHANGED << pw_initialized, pw_browser, pw_context, launches, contexts,
                    pw_closed >>
    /\ UNCHANGED << inferVars, fetchVars, cacheVars, managerVars, queryVars,
                    detailVars, statsVars, detectorVars >>

\* The rest of the try block: the selectors are awaited and the page is
\* parsed, then "await page.close()" and the data is returned; or one of
\* query_selector_all / wait_for_selector(".mapholder") raises.
PwRead ==
    /\ \E t \in DOMAIN pw_ops, outcome \in {"data", "empty", "raised"} :
         /\ pw_ops[t].pc = "read"
         /\ IF outcome = "raised"
            THEN PwRaised(t)
            ELSE /\ open_pages' = open_pages \ {pw_ops[t].page}
                 /\ pw_ops' = [pw_ops EXCEPT ![t].pc = "done",
                                             ![t].ret = outcome]
    /\ UNCHANGED << pw_initialized, pw_browser, pw_context, launches, contexts,
                    pw_closed >>
    /\ UNCHANGED << inferVars, fetchVars, cacheVars, managerVars, queryVars,
                    detailVars, statsVars, detectorVars >>

\* close(): the context, with its pages, the browser and playwright are
\* closed and self._initialized = False.
PwClose ==
    /\ ~pw_closed
    /\ pw_closed' = TRUE
    /\ pw_initialized' = FALSE
    /\ open_pages' = {}
    /\ UNCHANGED << pw_browser, pw_context, launches, contexts, pw_ops >>
    /\ UNCHANGED << inferVars, fetchVars, cacheVars, managerVars, queryVars,
                    detailVars, statsVars, detectorVars >>

InitBrowser ==
    /\ pw_initialized = FALSE
    /\ pw_browser = 0
    /\ pw_context = 0
    /\ launches = 0
    /\ contexts = 0
    /\ open_pages = {}
    /\ pw_ops = [t \in 1..MaxPageOps |-> NoOp]
    /\ pw_closed = FALSE
    /\ InferIdle
    /\ FetchIdle
    /\ CacheNew
    /\ ManagerNew
    /\ QueryIdle
    /\ DetailIdle
    /\ StatsIdle
    /\ DetectorNew

NextBrowser ==
    \/ PwCall
    \/ PwStarted
    \/ PwLaunched
    \/ PwContextCreated
    \/ PwNewPage
    \/ PwNavigated
    \/ PwRead
    \/ PwClose

SpecBrowser == InitBrowser /\ [][NextBrowser]_vars

----------------------------------------------------------------------------
(* MatchEventDetector (src/plugin.py) *)

Abs(x) == IF x < 0 THEN 0 - x ELSE x

\* A match of a snapshot: its id, the number of entries of its "teams" list
\* and the two scores.
Match(id, score1, score2) ==
    [id |-> id, teams |-> 2, score1 |-> score1, score2 |-> score2]

\* A match whose "teams" list has fewer than two entries.
MatchWithoutTeams(id) == [id |-> id, teams |-> 1, score1 |-> 0, score2 |-> 0]

\* The entry the loop stores for a match.
Stored(match) == [seen |-> TRUE, score1 |-> match.score1, score2 |-> match.score2]

\* _is_match_finished
IsMatchFinished(score1, score2) ==
    (score1 >= 16 \/ score2 >= 16) /\ Abs(score1 - score2) >= 2

\* _calculate_score_importance
ScoreImportance(old_score, new_score) ==
    LET old_diff == Abs(old_score[1] - old_score[2])
        new_diff == Abs(new_score[1] - new_score[2])
        total_rounds == new_score[1] + new_score[2]
    IN  IF total_rounds >= 15 THEN 4
        ELSE IF new_diff <= 1 THEN 4
        ELSE IF old_diff > 3 /\ new_diff <= 2 THEN 5
        ELSE IF total_rounds >= 10 THEN 3
        ELSE 2

MatchEvent(event_type, match_id, old_score, new_score, timestamp, importance) ==
    [event_type |-> event_type, match_id |-> match_id, old_score |-> old_score,
     new_score |-> new_score, timestamp |-> timestamp,
     importance |-> importance]

\* The events one match of the snapshot gives rise to, prev being its entry
\* of self.previous_matches.
EventsOf(prev, match, current_time) ==
    LET old == << prev.score1, prev.score2 >>
        new == << match.score1, match.score2 >>
    IN  IF prev.seen
        THEN (IF new # old
              THEN << MatchEvent("score_change", match.id, old, new,
                                 current_time, ScoreImportance(old, new)) >>
              ELSE << >>)
             \o
             (IF IsMatchFinished(new[1], new[2]) /\ ~IsMatchFinished(old[1], old[2])
              THEN << MatchEvent("match_end", match.id, old, new,
                                 current_time, 5) >>
              ELSE << >>)
        ELSE IF match.score1 > 0 \/ match.score2 > 0
        THEN << MatchEvent("match_start", match.id, << 0, 0 >>, new,
                           current_time, 3) >>
        ELSE << >>

\* The entry of self.previous_matches the loop finds for the match at
\* position i of the snapshot: the one stored for the last earlier match of
\* the snapshot with the same id, else the one of the previous call.
PrevAt(prev, current_matches, i) ==
    LET earlier == { j \in 1..(i - 1) :
                       /\ current_matches[j].id = current_matches[i].id
                       /\ current_matches[j].teams >= 2 }
    IN  IF earlier = {} THEN prev[current_matches[i].id]
        ELSE Stored(current_matches[CHOOSE j \in earlier :
                                       \A k \in earlier : k <= j])

RECURSIVE LoopEvents(_, _, _, _, _)

\* The events appended by the iterations lo..hi of "for match in
\* current_matches", in order; a match with fewer than two teams is passed
\* over by "continue".
LoopEvents(prev, current_matches, lo, hi, current_time) ==
    IF lo > hi THEN << >>
    ELSE IF lo = hi
    THEN IF current_matches[lo].teams < 2 THEN << >>
         ELSE EventsOf(PrevAt(prev, current_matches, lo), current_matches[lo],
                       current_time)
    ELSE LET mid == (lo + hi) \div 2
         IN  LoopEvents(prev, current_matches, lo, mid, current_time)
               \o LoopEvents(prev, current_matches, mid + 1, hi, current_time)

\* self.previous_matches after the loop: self.previous_matches[match_id] =
\* match for every match with two teams, the last one of an id remaining.
LoopStored(prev, current_matches) ==
    [id \in DOMAIN prev |->
        LET at == { j \in 1..Len(current_matches) :
                      /\ current_matches[j].id = id
                      /\ current_matches[j].teams >= 2 }
        IN  IF at = {} THEN prev[id]
            ELSE Stored(current_matches[CHOOSE j \in at : \A k \in at : k <= j])]

\* Mutant: the oldest max_history events are kept.
Truncate_KeepOldest(history) ==
    IF Len(history) > max_history
    THEN SubSeq(history, 1, max_history)
    ELSE history

\* if len(self.event_history) > self.max_history:
\*     self.event_history = self.event_history[-self.max_history:]
Truncate(history) ==
    IF Len(history) > max_history
    THEN SubSeq(history, Len(history) - max_history + 1, Len(history))
    ELSE history

\* ---- the snapshots ----

\* Scores of the followed match: not started, and three rounds around the
\* end of a match.
TrackedScores == { << 0, 0 >>, << 15, 14 >>, << 16, 14 >>, << 16, 15 >>, << 17, 15 >> }

\* A snapshot naming more matches than the history holds; their score is
\* the number of the call, so that each of them changes at every call.
Crowd(call) == [i \in 1..(max_history + 1) |-> Match(i + 1, call, 0)]

\* The snapshots call number call can be given.
Snapshots(call) ==
    { << Match(TrackedMatch, s[1], s[2]) >> : s \in TrackedScores }
      \cup { << MatchWithoutTeams(TrackedMatch) >>, Crowd(call) }

\* detect_events(current_matches)
DetectEvents ==
    /\ detect_calls < MaxDetectCalls
    /\ \E current_matches \in Snapshots(detect_calls + 1) :
         LET events == LoopEvents(previous_matches, current_matches, 1,
                                  Len(current_matches), detect_calls + 1)
         IN  /\ previous_matches' = LoopStored(previous_matches, current_matches)
             /\ event_history' = Truncate(event_history \o events)
             /\ emitted' = emitted \o events
             /\ returned' = events
             /\ snapshots' = Append(snapshots, current_matches)
    /\ detect_calls' = detect_calls + 1
    /\ UNCHANGED << inferVars, fetchVars, cacheVars, managerVars, queryVars,
                    detailVars, statsVars, browserVars >>

InitDetector ==
    /\ DetectorNew
    /\ InferIdle
    /\ FetchIdle
    /\ CacheNew
    /\ ManagerNew
    /\ QueryIdle
    /\ DetailIdle
    /\ StatsIdle
    /\ BrowserIdle

NextDetector == DetectEvents

SpecDetector == InitDetector /\ [][NextDetector]_vars

----------------------------------------------------------------------------
(* PlaywrightProvider._parse_match_page *)

\* Mutant: a map is finished at 16 rounds.
PwIsFinished_Sixteen(t1_score, t2_score) ==
    \/ (t1_score >= 16 /\ t1_score - t2_score >= 2)
    \/ (t2_score >= 16 /\ t2_score - t1_score >= 2)

\* The finished test of the provider's map loop: two branches.
PwIsFinished(t1_score, t2_score) ==
    \/ (t1_score >= 13 /\ t1_score - t2_score >= 2)
    \/ (t2_score >= 13 /\ t2_score - t1_score >= 2)

\* The locals before the provider's loop.
PwInitialLocals ==
    [t1_maps_won |-> 0, t2_maps_won |-> 0, current_map |-> "",
     t1_round |-> 0, t2_round |-> 0]

\* One iteration of "for mh in mapholders" of the provider on its locals.
PwProcessMapholder(l, mh) ==
    IF Len(mh.scores) >= 2
    THEN LET t1_text == mh.scores[1]
             t2_text == mh.scores[2]
         IN  IF t1_text # Dash /\ t2_text # Dash
             THEN IF IsIntText(t1_text) /\ IsIntText(t2_text)
                  THEN LET t1_score == IntOf(t1_text)
                           t2_score == IntOf(t2_text)
                       IN  IF PwIsFinished(t1_score, t2_score)
                           THEN IF t1_score > t2_score
                                THEN [l EXCEPT !.t1_maps_won = @ + 1]
                                ELSE [l EXCEPT !.t2_maps_won = @ + 1]
                           ELSE [l EXCEPT !.current_map = mh.map_name,
                                          !.t1_round = t1_score,
                                          !.t2_round = t2_score]
                  ELSE l      \* except ValueError: pass
             ELSE l
    ELSE l

RECURSIVE PwMapLoop(_, _)

\* The provider's loop over the mapholders, from the locals l.
PwMapLoop(l, holders) ==
    IF holders = << >> THEN l
    ELSE PwMapLoop(PwProcessMapholder(l, Head(holders)), Tail(holders))

\* The LiveMatchData fields the provider derives from the mapholders.
PwParseMatchPage(holders) ==
    LET l == PwMapLoop(PwInitialLocals, holders)
    IN  [team1_map_score |-> l.t1_maps_won, team2_map_score |-> l.t2_maps_won,
         current_map |-> l.current_map,
         team1_round_score |-> l.t1_round, team2_round_score |-> l.t2_round]

----------------------------------------------------------------------------
(* Claims on the live-state inference *)

Numeric(mh) ==
    /\ Len(mh.scores) >= 2
    /\ IsIntText(mh.scores[1])
    /\ IsIntText(mh.scores[2])

Score1(mh) == IntOf(mh.scores[1])
Score2(mh) == IntOf(mh.scores[2])

\* One side has at least 13 and leads by at least 2.
WonByTwo(mh) ==
    /\ Numeric(mh)
    /\ \/ (Score1(mh) >= 13 /\ Score1(mh) - Score2(mh) >= 2)
       \/ (Score2(mh) >= 13 /\ Score2(mh) - Score1(mh) >= 2)

\* Entries among the first k that team 1 (team 2) won by that rule.
WonBy1(k) == { i \in 1..k : WonByTwo(mapholders[i]) /\ Score1(mapholders[i]) > Score2(mapholders[i]) }
WonBy2(k) == { i \in 1..k : WonByTwo(mapholders[i]) /\ Score2(mapholders[i]) > Score1(mapholders[i]) }

\* Entries among the first k with two numeric scores that are not finished.
InProgress(k) == { i \in 1..k : Numeric(mapholders[i]) /\ ~WonByTwo(mapholders[i]) }

Last(S) == CHOOSE i \in S : \A j \in S : j <= i

Returned == pc = "done" /\ result.kind = "LiveMatch"

\* The loop processes entry mapholders[mh_index'] in this step.
LoopStepOn(P(_)) ==
    /\ pc = "loop"
    /\ mh_index' = mh_index + 1
    /\ P(mapholders[mh_index'])

\* C1: every entry with two numeric scores in which one side has at least 13
\* and leads by at least 2 adds exactly 1 to the maps-won counter of the side
\* with the higher score, nothing to the other counter, and is not recorded as
\* the current map; the returned counters count exactly those entries.
C1_FinishedCountsForWinner ==
    /\ [][LoopStepOn(WonByTwo) =>
            LET mh == mapholders[mh_index']
            IN  /\ Score1(mh) > Score2(mh) =>
                      /\ team1_maps_won' = team1_maps_won + 1
                      /\ team2_maps_won' = team2_maps_won
                /\ Score2(mh) > Score1(mh) =>
                      /\ team2_maps_won' = team2_maps_won + 1
                      /\ team1_maps_won' = team1_maps_won
                /\ UNCHANGED << current_map, current_map_t1_score,
                                current_map_t2_score >>]_vars
    /\ [](Returned =>
            /\ result.team1_map_score = Cardinality(WonBy1(Len(mapholders)))
            /\ result.team2_map_score = Cardinality(WonBy2(Len(mapholders))))

\* A finished map followed by a map in progress, as in
\* [(Mirage,13,4),(Inferno,9,7)].
C1_Witness ==
    /\ Returned
    /\ Len(mapholders) = 2
    /\ mapholders[1] = [map_name |-> "Mirage", scores |-> << << "1","5" >>, << "1","2" >> >>]
    /\ mapholders[2] = [map_name |-> "Inferno", scores |-> << << "1","2" >>, << "1","3" >> >>]
    /\ result.team1_map_score = 1
    /\ result.team2_map_score = 0
    /\ result.current_map = "Inferno"
    /\ result.team1_round_score = 12
    /\ result.team2_round_score = 13

\* C2: the latest entry, in document order, with two numeric scores that is
\* not finished is the current map and round score; such entries leave the
\* maps-won counters alone.
C2_LatestInProgressIsCurrent ==
    /\ pc \in {"loop", "done"} /\ InProgress(mh_index) # {} =>
          LET mh == mapholders[Last(InProgress(mh_index))]
          IN  /\ current_map = mh.map_name
              /\ current_map_t1_score = Score1(mh)
              /\ current_map_t2_score = Score2(mh)
    /\ pc \in {"loop", "done"} =>
          team1_maps_won + team2_maps_won
             = mh_index - Cardinality({ i \in 1..mh_index :
                                          ~WonByTwo(mapholders[i]) })
    /\ Returned /\ InProgress(Len(mapholders)) # {} =>
          LET mh == mapholders[Last(InProgress(Len(mapholders)))]
          IN  /\ result.current_map = mh.map_name
              /\ result.team1_round_score = Score1(mh)
              /\ result.team2_round_score = Score2(mh)

\* Two maps in progress on one page: the later one is returned.
C2_Witness ==
    /\ Returned
    /\ Len(mapholders) = 2
    /\ InProgress(2) = {1, 2}
    /\ mapholders[1].map_name = "Mirage"
    /\ mapholders[1].scores # mapholders[2].scores
    /\ result.current_map = "Inferno"
    /\ result.team1_map_score = 0
    /\ result.team2_map_score = 0

\* C3: when no entry qualifies as current, the returned current map is empty
\* and the returned round score is (0,0).
C3_NoCurrentIsEmpty ==
    Returned /\ InProgress(Len(mapholders)) = {} =>
        /\ result.current_map = ""
        /\ result.team1_round_score = 0
        /\ result.team2_round_score = 0

\* A single finished overtime map, as in [(Nuke,16,14)].
C3_Witness ==
    /\ Returned
    /\ Len(mapholders) = 1
    /\ mapholders[1].scores = << << "1","5" >>, << "1","3" >> >>
    /\ result.team1_map_score = 1
    /\ result.team2_map_score = 0
    /\ result.current_map = ""

BothDash(mh) == mh.scores = << Dash, Dash >>

\* C4: processing an entry whose two scores are the dash leaves the maps-won
\* counters, the current map and the current round score as they were.
C4_PlaceholderSkipped ==
    [][LoopStepOn(BothDash) =>
         UNCHANGED << team1_maps_won, team2_maps_won, current_map,
                      current_map_t1_score, current_map_t2_score >>]_vars

\* A placeholder after a map in progress: the map in progress is kept.
C4_Witness ==
    /\ Returned
    /\ Len(mapholders) = 2
    /\ Numeric(mapholders[1]) /\ ~WonByTwo(mapholders[1])
    /\ BothDash(mapholders[2])
    /\ result.current_map = mapholders[1].map_name
    /\ result.team1_round_score = 12

\* The format the descriptor text indicates; "" stands for no format.
IndicatedFormat(elem) ==
    IF elem.present /\ Contains(Lower(elem.text), BestOf5) THEN "bo5"
    ELSE IF elem.present /\ Contains(Lower(elem.text), BestOf3) THEN "bo3"
    ELSE IF elem.present /\ Contains(Lower(elem.text), BestOf1) THEN "bo1"
    ELSE ""

----------------------------------------------------------------------------
(* Claims on the fetcher *)

IsRequest(e) == e.ev = "request"
IsSleep(e) == e.ev = "sleep"
Answered200(e) ==
    IsRequest(e) /\ e.outcome.kind = "response" /\ e.outcome.status_code = 200

NumRequests == Cardinality({ i \in 1..Len(fetch_trace) : IsRequest(fetch_trace[i]) })
Never200 == \A i \in 1..Len(fetch_trace) : ~Answered200(fetch_trace[i])

RECURSIVE SleptUpTo(_)
SleptUpTo(k) ==
    IF k = 0 THEN 0
    ELSE SleptUpTo(k - 1)
           + (IF IsSleep(fetch_trace[k]) THEN fetch_trace[k].secs ELSE 0)

TotalSlept == SleptUpTo(Len(fetch_trace))

\* 2 + 3 + ... + n
RECURSIVE SumTwoTo(_)
SumTwoTo(n) == IF n < 2 THEN 0 ELSE n + SumTwoTo(n - 1)

FetchDone == fetch_pc = "done"

\* C6 as stated: a call that never gets a 200 makes exactly retries requests
\* and returns None.
C6_ExactlyRetriesAttempts ==
    FetchDone /\ Never200 =>
        /\ NumRequests = retries
        /\ fetch_result = None

\* C6: with the dependencies installed, a call that never gets a 200 (403,
\* another status or an exception, in any mix) makes exactly retries requests
\* and returns None; without them it makes no request and returns None.
C6_RetriesAttemptsWithDependencies ==
    FetchDone /\ Never200 =>
        /\ fetch_result = None
        /\ NumRequests = IF HAS_DEPENDENCIES THEN retries ELSE 0

\* Three attempts: an exception, a 403 and a 500.
C6_Witness ==
    /\ FetchDone
    /\ HAS_DEPENDENCIES
    /\ retries = 3
    /\ Len(fetch_trace) = 5
    /\ fetch_trace[1].outcome.kind = "exception"
    /\ fetch_trace[3].outcome.kind = "response"
    /\ fetch_trace[3].outcome.status_code = 403
    /\ fetch_trace[5].outcome.kind = "response"
    /\ fetch_trace[5].outcome.status_code = 500
    /\ NumRequests = 3
    /\ fetch_result = None

\* C7: the first request answered 200 is the last event of the call, it is
\* request number attempt + 1, and its body is what the call returns; a call
\* returns a text only that way.
C7_First200Returned ==
    /\ \A i \in 1..Len(fetch_trace) :
          Answered200(fetch_trace[i]) =>
             /\ i = Len(fetch_trace)
             /\ FetchDone
             /\ fetch_result = Text(fetch_trace[i].outcome.text)
             /\ NumRequests = fetch_trace[i].attempt + 1
    /\ fetch_result.kind = "text" =>
          /\ Len(fetch_trace) > 0
          /\ Answered200(fetch_trace[Len(fetch_trace)])

\* Two failed attempts, then a 200 on attempt 2.
C7_Witness ==
    /\ FetchDone
    /\ retries = 3
    /\ NumRequests = 3
    /\ Answered200(fetch_trace[Len(fetch_trace)])
    /\ fetch_trace[Len(fetch_trace)].attempt = 2
    /\ fetch_result = Text("<html>b</html>")

----------------------------------------------------------------------------
(* Claims on the cache *)

JustRead == got.kind = "read"

\* Seconds since the last _set_cache of key; defined when it was set.
SinceSet(key) == now - set_log[key].timestamp

\* C9: a _get_cache(k, category) made less than ttl(category) seconds after
\* the last _set_cache(k, v) returns v, however often k is read and whatever
\* is set under other keys in between.
C9_ReadWithinTtlReturnsValue ==
    JustRead /\ set_log[got.key].set /\ SinceSet(got.key) < Ttl(got.cache_type) =>
        got.ret = Value(set_log[got.key].data)

\* A read one second before the rankings TTL, after the other key was set.
C9_Witness ==
    /\ JustRead
    /\ got.key = "matches_list"
    /\ got.cache_type = "rankings"
    /\ set_log["matches_list"] = WasSet(<< "m1" >>, 0)
    /\ set_log["results_list"].set
    /\ set_log["results_list"].timestamp > 0
    /\ now = 3599
    /\ got.ret = Value(<< "m1" >>)

\* C10: _get_cache(k, category) misses exactly when k was never set or at
\* least ttl(category) seconds have passed since it was set, with the TTL of
\* the category of the read; every entry set stays in the store as set.
C10_MissIffAbsentOrExpired ==
    /\ JustRead =>
         (got.ret = None <=>
            \/ ~set_log[got.key].set
            \/ SinceSet(got.key) >= Ttl(got.cache_type))
    /\ DOMAIN cache = { k \in CacheKeys : set_log[k].set }
    /\ \A k \in DOMAIN cache :
         cache[k] = Entry(set_log[k].data, set_log[k].timestamp)

\* A miss at exactly 60 seconds for match_detail; the entry is still stored.
C10_Witness ==
    /\ JustRead
    /\ got.cache_type = "match_detail"
    /\ got.key \in DOMAIN cache
    /\ now - cache[got.key].timestamp = 60
    /\ got.ret = None


----------------------------------------------------------------------------
(* LiveDataManager.get_live_matches and configure *)

\* The provider answered with at least one match.
ProviderYielded ==
    /\ m_live_data # Pending
    /\ m_live_data.kind = "list"
    /\ m_live_data.items # << >>

ManagerDone == m_pc = "done"

Awaited(source) == \E i \in 1..Len(m_called) : m_called[i] = source

\* C15: a call in which the provider is disabled, absent, answers with no
\* match or raises returns what the primary scraper returns when the
\* fallback flag is set, and the empty list without asking the scraper when
\* it is not.
C15_FallbackOrEmpty ==
    (ManagerDone /\ ~ProviderYielded) =>
        IF m_seen.fallback
        THEN /\ m_called # << >>
             /\ m_called[Len(m_called)] = "scraper"
             /\ m_scraper_data # Pending
             /\ m_result = m_scraper_data
        ELSE /\ ~Awaited("scraper")
             /\ m_scraper_data = Pending
             /\ m_result = List(<< >>)

C15_Witness ==
    /\ ManagerDone
    /\ m_live_data = Raised
    /\ m_seen.fallback
    /\ m_result = List(<< ScraperMatch1 >>)

SharedFields ==
    {"match_id", "team1", "team2", "team1_map_score", "team2_map_score",
     "current_map", "team1_round_score", "team2_round_score", "event",
     "format", "url"}

\* C16: a call that finds the manager enabled with a provider awaits the
\* provider first; when the provider answers with a non-empty list the call
\* returns one LiveMatch per provider match, in order, with the same eleven
\* fields, and the primary scraper is not awaited.
C16_ProviderFirst ==
    /\ (m_pc # "idle" /\ m_seen.enabled /\ m_seen.provider # 0) =>
           (m_called # << >> /\ m_called[1] = "provider")
    /\ (ManagerDone /\ ProviderYielded) =>
           /\ m_called = << "provider" >>
           /\ m_scraper_data = Pending
           /\ m_result.kind = "list"
           /\ Len(m_result.items) = Len(m_live_data.items)
           /\ \A i \in 1..Len(m_live_data.items) :
                /\ DOMAIN m_result.items[i] = SharedFields
                /\ \A f \in SharedFields :
                     m_result.items[i][f] = m_live_data.items[i][f]

C16_Witness ==
    /\ ManagerDone
    /\ m_seen.enabled
    /\ m_live_data = List(<< ProviderMatch2, ProviderMatch1 >>)
    /\ Len(m_result.items) = 2

\* C17: whenever a provider is active, every provider the manager held
\* before it has completed its close().
C17_PreviousClosedBeforeActive ==
    m_provider # 0 =>
        \A p \in 1..Len(instances) :
            p # m_provider => instances[p].state = "closed"


----------------------------------------------------------------------------
(* HLTVScraper query operations *)

\* The operation of task t has returned.
Done(t) == tasks[t].call # NoCall /\ tasks[t].stack = << >>

\* What the operation of task t returned.
Result(t) == tasks[t].trace[1].ret

Failed(e) == e.html # Pending /\ NotHtml(e.html)
Succeeded(e) == e.html # Pending /\ ~NotHtml(e.html)

\* Entry i of the fetches of task t is the request of the operation itself:
\* not one of an operation it calls, nor the detail request of a live match.
OwnRequest(t, i) ==
    LET k == tasks[t]
    IN  /\ k.fetched[i].op = k.call.op
        /\ k.call.op = "get_live_matches" => k.fetched[i].url = "/matches"

\* C11: a call of get_matches, get_live_matches, get_results or get_rankings
\* that finds an unexpired entry under its key, whatever list it holds,
\* issues no fetch and returns the cached list (cut to the maximum asked).
C11_FreshEntryServed ==
    \A t \in DOMAIN tasks :
        (tasks[t].call.op \in SequenceOps /\ tasks[t].cached0 # None) =>
            /\ tasks[t].fetched = << >>
            /\ Result(t) = Returned_List(tasks[t].call,
                                         tasks[t].cached0.value.items)

\* The items the pages fetched by task t hold, and the records the parsers
\* find in them.
FetchedItems(t) ==
    LET k == tasks[t]
        pages == { i \in 1..Len(k.fetched) : Succeeded(k.fetched[i]) }
    IN  UNION { LET e == k.fetched[i]
                    c == e.html.content
                IN  IF e.url = "/matches"
                    THEN IF e.op = "get_matches"
                         THEN { c.matches[j] : j \in 1..Len(c.matches) }
                         ELSE { c.containers[j].match : j \in
                                  { j \in 1..Len(c.containers) :
                                      c.containers[j].kind = "parsed" } }
                    ELSE IF e.url = "/results"
                    THEN { c.results[j] : j \in 1..Len(c.results) }
                    ELSE IF e.url = "/ranking/teams"
                    THEN { c.teams[j] : j \in 1..Len(c.teams) }
                    ELSE IF c.parsed
                    THEN CASE e.op = "get_match_detail" -> { MatchDetail(k.call.id) }
                           [] e.op = "get_map_stats" -> { MapStats(e.url) }
                           [] e.op = "get_player_info" -> { PlayerInfo(k.call.id) }
                           [] OTHER -> { }
                    ELSE { }
              : i \in pages }

\* The upcoming-listing form of a live match: without what the detail page added.
Listed(item) ==
    IF "detailed" \in DOMAIN item THEN [item EXCEPT !.detailed = FALSE] ELSE item

QueryOps == SequenceOps \cup RecordOps \cup {"get_match_detail"}

\* C12: an operation whose own request failed returns the empty list (the
\* four sequence operations) or None (get_match_detail, get_map_stats,
\* get_player_info); and whatever an operation returns was read from the
\* cache or extracted from a body it fetched.
C12_FailureIsUnavailable ==
    \A t \in DOMAIN tasks :
        (Done(t) /\ tasks[t].call.op \in QueryOps) =>
            LET k == tasks[t]
                r == Result(t)
            IN  /\ (\E i \in 1..Len(k.fetched) :
                        OwnRequest(t, i) /\ Failed(k.fetched[i])) =>
                       r = IF k.call.op \in SequenceOps THEN List(<< >>) ELSE None
                /\ IF k.call.op \in SequenceOps
                   THEN /\ r.kind = "list"
                        /\ \A j \in 1..Len(r.items) :
                             \/ /\ k.cached0 # None
                                /\ \E i \in 1..Len(k.cached0.value.items) :
                                     k.cached0.value.items[i] = r.items[j]
                             \/ Listed(r.items[j]) \in FetchedItems(t)
                   ELSE \/ r = None
                        \/ k.cached0 # None /\ r = k.cached0.value
                        \/ r \in FetchedItems(t)

C12_Witness ==
    \E t \in DOMAIN tasks :
        /\ Done(t)
        /\ tasks[t].call.op = "get_match_detail"
        /\ Len(tasks[t].fetched) = 2
        /\ Succeeded(tasks[t].fetched[1])
        /\ Failed(tasks[t].fetched[2])
        /\ Result(t) = None

\* Task t gets the answer to its fetch in this step.
FetchCompleted(t) ==
    /\ tasks[t].stack # << >>
    /\ tasks'[t].fetched[Len(tasks[t].fetched)].html # Pending

\* The answer task t gets in this step.
Answer(t) == tasks'[t].fetched[Len(tasks[t].fetched)].html

\* C13: the cache changes only in the step in which an operation gets the
\* body of its own request (for get_live_matches: after its listing was
\* fetched), and then only the entry of the key of that operation, stamped
\* with the time of the step; a step in which the request of an operation
\* fails, and a step that only reads the cache, leave the cache as it was.
C13_CacheChangedOnlyByFetch ==
    [][ /\ cache' # cache =>
              \E t \in DOMAIN tasks :
                  /\ FetchCompleted(t)
                  /\ LET f == Top(tasks[t].stack)
                         key == Key(f.call)
                     IN  /\ f.pc = "fetch" => ~NotHtml(Answer(t))
                         /\ f.pc = "detail" =>
                                \E i \in 1..Len(tasks[t].fetched) :
                                    /\ tasks[t].fetched[i].url = "/matches"
                                    /\ Succeeded(tasks[t].fetched[i])
                         /\ DOMAIN cache' = DOMAIN cache \cup {key}
                         /\ \A k \in DOMAIN cache \ {key} : cache'[k] = cache[k]
                         /\ cache'[key].timestamp = now
                         /\ IF f.call.op \in SequenceOps
                            THEN tasks'[t].trace[f.ix].ret =
                                     Returned_List(f.call, cache'[key].data.items)
                            ELSE /\ tasks'[t].trace[f.ix].ret = cache'[key].data
                                 /\ cache'[key].data # None
        /\ \A t \in DOMAIN tasks :
              (FetchCompleted(t) /\ Top(tasks[t].stack).pc = "fetch"
                 /\ NotHtml(Answer(t))) => cache' = cache
        /\ (\A t \in DOMAIN tasks : ~FetchCompleted(t)) => cache' = cache
      ]_vars

\* An operation whose request failed while an expired entry of its key was
\* in the cache: the entry is still there.
C13_Witness ==
    \E t \in DOMAIN tasks :
        /\ Done(t)
        /\ tasks[t].call.op = "get_matches"
        /\ tasks[t].cached0 = None
        /\ Len(tasks[t].fetched) = 1
        /\ Failed(tasks[t].fetched[1])
        /\ Key(tasks[t].call) \in DOMAIN cache
        /\ cache[Key(tasks[t].call)].timestamp < now


LiveKey == "live_matches"

AllDone == \A t \in DOMAIN tasks : Done(t)

\* C14: with several get_live_matches running at once, every entry of the
\* cache is the (value, timestamp) pair one operation wrote, with the
\* complete list that operation returned; every read saw no entry or the
\* value of such a pair; and when all operations have returned, the entry is
\* the one written by one of them.
C14_EntriesAreWhole ==
    /\ \A key \in DOMAIN cache :
          /\ DOMAIN cache[key] = {"data", "timestamp"}
          /\ \E t \in DOMAIN tasks :
                /\ tasks[t].wrote # None
                /\ tasks[t].wrote.key = key
                /\ tasks[t].wrote.entry = cache[key]
    /\ \A t \in DOMAIN tasks :
          tasks[t].wrote # None =>
              /\ Done(t)
              /\ tasks[t].wrote.entry.data = Result(t)
    /\ \A t \in DOMAIN tasks :
          tasks[t].cached0 # None =>
              \E u \in DOMAIN tasks :
                  /\ tasks[u].wrote # None
                  /\ tasks[u].wrote.entry.data = tasks[t].cached0.value
    /\ (AllDone /\ cache # << >>) =>
          \E t \in DOMAIN tasks :
              /\ tasks[t].wrote # None
              /\ cache[LiveKey] = tasks[t].wrote.entry
              /\ cache[LiveKey].data = Result(t)

\* Two operations fetched the listing, returned different lists, and the
\* entry is the list of the second.
C14_Witness ==
    \E t, u \in DOMAIN tasks :
        /\ t # u
        /\ AllDone
        /\ tasks[t].wrote # None
        /\ tasks[u].wrote # None
        /\ Result(t) # Result(u)
        /\ cache[LiveKey].data = Result(u)
        /\ cache[LiveKey].data # Result(t)

\* C18: get_match_detail returns a cached detail without entering another
\* operation or fetching; with a url it fetches that url and enters neither
\* listing; without one it enters get_matches first, enters get_results
\* exactly when get_matches returned no entry with the id, fetches the
\* page exactly when one of the two lists has such an entry, and otherwise
\* returns None.
C18_ResolutionOrder ==
    \A t \in DOMAIN tasks :
        (Done(t) /\ tasks[t].call.op = "get_match_detail") =>
            LET k == tasks[t]
                tr == k.trace
                Has(v) == \E i \in 1..Len(v.items) : v.items[i].match_id = k.call.id
                own == { i \in 1..Len(k.fetched) :
                           k.fetched[i].op = "get_match_detail" }
            IN  IF k.cached0 # None
                THEN /\ Len(tr) = 1
                     /\ k.fetched = << >>
                     /\ Result(t) = k.cached0.value
                ELSE IF k.call.url # ""
                THEN /\ Len(tr) = 1
                     /\ Len(k.fetched) = 1
                     /\ k.fetched[1].url = k.call.url
                ELSE /\ Len(tr) >= 2
                     /\ tr[2].op = "get_matches"
                     /\ IF Has(tr[2].ret)
                        THEN /\ Len(tr) = 2
                             /\ own # {}
                        ELSE /\ Len(tr) = 3
                             /\ tr[3].op = "get_results"
                             /\ Has(tr[3].ret) <=> own # {}
                     /\ own = {} => Result(t) = None
                     /\ \A i \in own :
                          \E v \in { tr[j].ret : j \in 2..Len(tr) } :
                              \E j \in 1..Len(v.items) :
                                  /\ v.items[j].match_id = k.call.id
                                  /\ v.items[j].url = k.fetched[i].url

\* The id was in the results only, and the detail was fetched.
C18_Witness ==
    \E t \in DOMAIN tasks :
        /\ Done(t)
        /\ tasks[t].call.op = "get_match_detail"
        /\ Len(tasks[t].trace) = 3
        /\ Result(t) = MatchDetail(tasks[t].call.id)

\* The ranking list search_team looked at: the fetched one, the cached one
\* when nothing was fetched, none when the fetch failed.
Snapshot(t) ==
    LET k == tasks[t]
    IN  IF k.fetched = << >>
        THEN cache["rankings_list"].data.items
        ELSE IF Succeeded(k.fetched[1])
        THEN k.fetched[1].html.content.teams
        ELSE << >>

NameMatches(team, name) == Contains(Lower(team.name), Lower(name))

\* The first entry of teams whose name matches, None without one.
FirstOf(teams, name, r) ==
    LET hits == { i \in 1..Len(teams) : NameMatches(teams[i], name) }
    IN  IF hits = {}
        THEN r = None
        ELSE \E i \in hits : r = teams[i] /\ \A j \in hits : i <= j

\* C19 as stated: search_team returns the first matching entry of the whole
\* snapshot, and None when the snapshot has none.
C19_FirstMatchOfSnapshot ==
    \A t \in DOMAIN tasks :
        (Done(t) /\ tasks[t].call.op = "search_team") =>
            FirstOf(Snapshot(t), tasks[t].call.name, Result(t))

\* C19: search_team returns the first matching entry among the first
\* RankLimit entries of the snapshot, and None when none of these matches.
C19_FirstMatchOfTop ==
    \A t \in DOMAIN tasks :
        (Done(t) /\ tasks[t].call.op = "search_team") =>
            FirstOf(Slice(Snapshot(t), RankLimit), tasks[t].call.name, Result(t))

\* "ast" finds Astralis, ranked before BLAST.
C19_Witness ==
    \E t \in DOMAIN tasks :
        /\ Done(t)
        /\ tasks[t].call.op = "search_team"
        /\ tasks[t].call.name = << "a", "s", "t" >>
        /\ Result(t) = TeamInfo(Astralis, 2)


----------------------------------------------------------------------------
(* HLTVScraper._parse_match_detail *)

\* The maps of the detail whose score pair is not a finished one.
MapsInProgress ==
    { i \in 1..Len(detail.maps) :
        ~IsFinished(detail.maps[i].team1_score, detail.maps[i].team2_score) }

\* C20: a MatchDetail with status live has at most one map in progress.
C20_AtMostOneInProgress ==
    (detail # Pending /\ detail.status = "live") =>
        Cardinality(MapsInProgress) <= 1

----------------------------------------------------------------------------
(* HLTVScraper._parse_stats_table *)

StatsDone == stats_pc = "done"

\* The rows of the table are well-formed or lack only their ADR cell.
OnlyAdrMissing ==
    \A i \in 1..Len(table) :
        \E w \in WellFormed : table[i] \in {w.row, WithoutAdr(w.row)}

\* C21: in a table whose rows are well-formed except that some lack their
\* ADR cell, a row without the ADR cell yields a record with adr = 0.0 and
\* with the kills, deaths, rating and other fields of its cells, and every
\* well-formed row yields the record of its cells.
C21_MissingAdrIsZero ==
    (StatsDone /\ OnlyAdrMissing) =>
        /\ Len(players) = Len(table)
        /\ \A i \in 1..Len(table) :
             \E w \in WellFormed :
                \/ table[i] = w.row /\ players[i] = w.player
                \/ /\ table[i] = WithoutAdr(w.row)
                   /\ players[i] = [w.player EXCEPT !.adr = 0]

\* The rows with at least 12 columns, in row order.
KeptRows == SelectSeq(table, LAMBDA row : Len(row) >= 12)

\* C22: whatever the cells of its rows hold, the parsed table has exactly
\* one record for each row with at least 12 columns, in row order; shorter
\* rows are skipped and no row stops the parsing of the rows after it.
C22_OneRecordPerRow ==
    StatsDone =>
        /\ Len(players) = Len(KeptRows)
        /\ \A k \in 1..Len(KeptRows) : players[k].nickname = KeptRows[k][1]

----------------------------------------------------------------------------
(* PlaywrightProvider *)

\* C23: whenever a page-level operation has returned, with data or with
\* the empty result of its except clause, the page it opened is no longer
\* open in the provider's context.
C23_PageReleased ==
    \A t \in DOMAIN pw_ops :
        (pw_ops[t].pc = "done" /\ pw_ops[t].page # 0) =>
            pw_ops[t].page \notin open_pages

\* C24: until close() is called, at most one browser has been launched and
\* at most one context created, whatever the interleaving of the
\* operations and whichever initialization steps failed.
C24_OneBrowserOneContext ==
    ~pw_closed => (launches <= 1 /\ contexts <= 1)

----------------------------------------------------------------------------
(* MatchEventDetector.detect_events *)

\* The snapshot names the match, with its two teams.
Names2(snapshot, id) ==
    \E j \in 1..Len(snapshot) : snapshot[j].id = id /\ snapshot[j].teams >= 2

\* The scores the snapshot gives for a match it names.
ScoreIn(snapshot, id) ==
    LET j == CHOOSE j \in 1..Len(snapshot) :
                snapshot[j].id = id /\ snapshot[j].teams >= 2
    IN  << snapshot[j].score1, snapshot[j].score2 >>

\* The calls whose snapshot names the match.
CallsNaming(id) == { k \in 1..Len(snapshots) : Names2(snapshots[k], id) }

\* From call to call neither score of the match decreases.
NeverDecreases(id) ==
    \A a, b \in CallsNaming(id) :
        a < b => /\ ScoreIn(snapshots[a], id)[1] <= ScoreIn(snapshots[b], id)[1]
                 /\ ScoreIn(snapshots[a], id)[2] <= ScoreIn(snapshots[b], id)[2]

\* One side has at least 16 with a lead of at least 2.
ShownFinished(score) ==
    /\ (score[1] >= 16 \/ score[2] >= 16)
    /\ (score[1] - score[2] >= 2 \/ score[2] - score[1] >= 2)

\* The match_end events emitted for the match so far.
MatchEnds(id) ==
    SelectSeq(emitted, LAMBDA e : e.event_type = "match_end" /\ e.match_id = id)

\* C27: when the scores of the followed match never decrease over the
\* snapshots passed so far, at most one match_end event has been emitted
\* for it, and that event was emitted by the first call whose snapshot
\* shows the match finished.
C27_OneMatchEnd ==
    NeverDecreases(TrackedMatch) =>
        /\ Len(MatchEnds(TrackedMatch)) <= 1
        /\ \A n \in 1..Len(MatchEnds(TrackedMatch)) :
             LET k == MatchEnds(TrackedMatch)[n].timestamp
             IN  /\ k \in CallsNaming(TrackedMatch)
                 /\ ShownFinished(ScoreIn(snapshots[k], TrackedMatch))
                 /\ \A a \in CallsNaming(TrackedMatch) :
                      a < k => ~ShownFinished(ScoreIn(snapshots[a], TrackedMatch))

\* The last n elements of a sequence.
LastN(seq, n) == SubSeq(seq, Len(seq) - n + 1, Len(seq))

\* C28: after every call event_history holds at most max_history (100)
\* events, namely the most recently emitted ones in emission order, and
\* the events a call returned end the history unless the call returned
\* more than max_history of them.
C28_HistoryIsRecent ==
    /\ max_history = 100
    /\ Len(event_history) = Min(max_history, Len(emitted))
    /\ event_history = LastN(emitted, Len(event_history))
    /\ returned = LastN(emitted, Len(returned))
    /\ Len(returned) <= max_history =>
          returned = LastN(event_history, Len(returned))

\* A call returned events after more than max_history had been emitted, so
\* that older events left the history.
C28_Witness ==
    /\ Len(emitted) > max_history
    /\ Len(event_history) = max_history
    /\ returned # << >>
    /\ Len(returned) < max_history
    /\ event_history[1] # emitted[1]

----------------------------------------------------------------------------
(* LiveDataManager.configure and close *)

\* C26: whenever the manager's provider type is a known type, the manager
\* holds a provider, the one get_live_matches consults, and it is of that
\* type.
C26_TypeHasProvider ==
    m_provider_type \in KnownTypes =>
        /\ m_provider # 0
        /\ instances[m_provider].type = m_provider_type

----------------------------------------------------------------------------
(* HLTVScraper.get_match_detail and get_live_matches *)

ListingUrls == {"/matches", "/results"}

\* C25: a call get_match_detail("") without url returns None and fetches
\* no page other than the two listings, whatever the listings hold.
C25_EmptyIdNoDetail ==
    \A t \in DOMAIN tasks :
        (Done(t) /\ tasks[t].call = GetMatchDetailCall("", "")) =>
            /\ Result(t) = None
            /\ \A i \in 1..Len(tasks[t].fetched) :
                 tasks[t].fetched[i].url \in ListingUrls

\* The detail page of the match was asked for by task t and could not be
\* fetched or parsed.
DetailUnavailable(t, match) ==
    \E i \in 1..Len(tasks[t].fetched) :
        LET e == tasks[t].fetched[i]
        IN  /\ e.url = match.url
            /\ e.html # Pending
            /\ (NotHtml(e.html) \/ ~e.html.content.parsed)

\* C29: every match returned by get_live_matches(fetch_details=True)
\* carries the data of its detail page, unless that page could not be
\* fetched, whatever calls were made before.
C29_DetailsWhenAsked ==
    \A t \in DOMAIN tasks :
        (Done(t) /\ tasks[t].call = GetLiveMatchesCall(TRUE)) =>
            \A i \in 1..Len(Result(t).items) :
                LET match == Result(t).items[i]
                IN  match.detailed \/ DetailUnavailable(t, match)

----------------------------------------------------------------------------
(* The two inferences of the live state *)

\* What the scraper's loop has derived from the mapholders processed so far,
\* under the field names of the result.
InferredSoFar ==
    [team1_map_score |-> team1_maps_won, team2_map_score |-> team2_maps_won,
     current_map |-> current_map,
     team1_round_score |-> current_map_t1_score,
     team2_round_score |-> current_map_t2_score]

\* C30: on every sequence of mapholders the three-branch inference of
\* _fetch_live_match_detail and the two-branch inference of
\* PlaywrightProvider._parse_match_page give the same maps-won pair, current
\* map and round score, after every entry and in the value returned.
C30_InferencesAgree ==
    /\ InferredSoFar = PwParseMatchPage(SubSeq(mapholders, 1, mh_index))
    /\ Returned =>
          \A f \in DOMAIN InferredSoFar :
              result[f] = PwParseMatchPage(mapholders)[f]

\* A returned inference over an entry that only the overtime branch and the
\* first two branches both accept (15-13), next to a map in progress.
C30_Witness ==
    /\ Returned
    /\ \E i \in 1..Len(mapholders) :
         /\ Numeric(mapholders[i])
         /\ Score1(mapholders[i]) >= 13 /\ Score2(mapholders[i]) >= 13
         /\ WonByTwo(mapholders[i])
    /\ result.team1_map_score + result.team2_map_score >= 1
    /\ result.current_map # ""

====
